---------------------------- MODULE Spec2Model ----------------------------
(***************************************************************************)
(* A model of the silex-desktop MCP bridge helpers (window.__silexMcp):    *)
(* the content-expression resolver, the component tree handlers and the   *)
(* cross-page symbol search.                                               *)
(*                                                                         *)
(* JavaScript strings that take part in split('.') / join('.') are         *)
(* modelled as sequences of atoms: an atom is either the dot "." or a      *)
(* whole identifier.  An identifier such as blog is the one-atom string    *)
(* <<"blog">>, the empty string is << >>.                                  *)
(***************************************************************************)
EXTENDS Integers, Sequences, FiniteSets, TLC

VARIABLES
    dsApi,        \* window.silex.dataSource: the schema, or NoCms
    dotPath,      \* the dotPath argument of resolveExpression
    resolved,     \* the value resolveExpression returned, or Pending
    pages,        \* editor.Pages.getAll(): the page ids, in order
    selectedPage, \* editor.Pages.getSelected()
    wrapper,      \* page id -> id of the page's root component
    comps,        \* component id -> its attributes
    kids,         \* component id -> ids of its children, in order
    parent,       \* component id -> id of its parent, or NoComp
    selected,     \* editor.getSelected(): a component id, or NoComp
    symbols,      \* editor.Components.getSymbols(): orphaned masters
    ret,          \* the last handler call and what it returned
    rules,        \* editor.Css: rule key -> declaration map
    activeRule,   \* editor.StyleManager.getSelected(): a rule key, or NoRule
    device,       \* editor.Devices.getSelected(): a device id
    pageInfo,     \* page id -> the page's attributes (name, settings)
    bridge,       \* the bridge script in the webview: page, polling, listeners
    menu,         \* the menu events the host sent and what they triggered
    shell         \* the Electron shell: win, pending timers, open windows

rsVars == <<dsApi, dotPath, resolved>>
edVars == <<pages, selectedPage, wrapper, comps, kids, parent, selected, symbols, ret>>
edVarsButRet == <<pages, selectedPage, wrapper, comps, kids, parent, selected, symbols>>
stVars == <<rules, activeRule>>
pgVars == <<device, pageInfo>>
brVars == <<bridge, menu, shell>>
vars == <<rsVars, edVars, stVars, pgVars, brVars>>

-----------------------------------------------------------------------------
(* Bounds *)

\* the longest dot-path drawn as an input has this many segments
MaxSegments == 4

-----------------------------------------------------------------------------
(* Generic helpers *)

\* Array.prototype.map(f => f.id)
RECURSIVE Ids(_)
Ids(seq) ==
    IF seq = << >> THEN << >> ELSE <<Head(seq).id>> \o Ids(Tail(seq))

\* index of the first element of seq whose id is id, 0 when there is none
\* (Array.prototype.find, with 0 for undefined)
RECURSIVE FindFrom(_, _, _)
FindFrom(seq, id, i) ==
    IF i > Len(seq) THEN 0
    ELSE IF seq[i].id = id THEN i
    ELSE FindFrom(seq, id, i + 1)

FindIndex(seq, id) == FindFrom(seq, id, 1)

\* x ?? d for an optional key of a JavaScript object
OrElse(obj, key, d) == IF key \in DOMAIN obj THEN obj[key] ELSE d

Range(seq) == {seq[i] : i \in DOMAIN seq}

Dot == "."

\* String.prototype.split('.'): the segments between the dots; the empty
\* string yields one empty segment
RECURSIVE SplitFrom(_, _, _)
SplitFrom(str, i, cur) ==
    IF i > Len(str) THEN <<cur>>
    ELSE IF str[i] = Dot THEN <<cur>> \o SplitFrom(str, i + 1, << >>)
    ELSE SplitFrom(str, i + 1, Append(cur, str[i]))

Split(str) == SplitFrom(str, 1, << >>)

\* Array.prototype.join('.')
RECURSIVE Join(_)
Join(parts) ==
    IF parts = << >> THEN << >>
    ELSE IF Len(parts) = 1 THEN parts[1]
    ELSE parts[1] \o <<Dot>> \o Join(Tail(parts))

\* Array.prototype.slice(0, n)
SliceTo(seq, n) == SubSeq(seq, 1, IF n > Len(seq) THEN Len(seq) ELSE n)


-----------------------------------------------------------------------------
(* The data source schema (window.silex.dataSource) *)

S(word) == <<word>>

\* getDataSourceApi() returned null: no CMS configured
NoCms == [sources |-> << >>, available |-> FALSE]

\* the scenario schema: source blog, queryable posts -> PostConnection
BlogSchema ==
    [available |-> TRUE,
     sources |-> <<
       [id |-> S("blog"),
        queryables |-> <<
          [id |-> S("posts"), label |-> "Posts", kind |-> "list",
           typeIds |-> <<"PostConnection">>] >>,
        types |-> <<
          [id |-> "PostConnection", fields |-> <<
             [id |-> S("title"), label |-> "Title", kind |-> "scalar",
              typeIds |-> <<"String">>],
             [id |-> S("author"), kind |-> "object",
              typeIds |-> <<"Author">>] >>],
          [id |-> "Author", fields |-> <<
             [id |-> S("posts"), kind |-> "list",
              typeIds |-> <<"PostConnection">>] >>],
          [id |-> "String", fields |-> << >>] >>] >>]

\* two sources; the queryable posts of cms resolves to a union of two types
\* that both have the fields title (same type ids) and author (different ones)
UnionSchema ==
    [available |-> TRUE,
     sources |-> <<
       [id |-> S("blog"),
        queryables |-> << >>,
        types |-> <<
          [id |-> "Post", fields |-> <<
             [id |-> S("title"), typeIds |-> <<"String">>] >>] >>],
       [id |-> S("cms"),
        queryables |-> <<
          [id |-> S("posts"), kind |-> "list",
           typeIds |-> <<"Page", "Post">>],
          [id |-> S("title")] >>,
        types |-> <<
          [id |-> "Team", fields |-> <<
             [id |-> S("posts"), kind |-> "list", typeIds |-> <<"Post">>],
             [id |-> S("cms"), typeIds |-> <<"String">>] >>],
          [id |-> "Post", fields |-> <<
             [id |-> S("title"), typeIds |-> <<"String">>],
             [id |-> S("author"), kind |-> "object",
              typeIds |-> <<"Author">>] >>],
          [id |-> "Page", fields |-> <<
             [id |-> S("title"), typeIds |-> <<"String">>],
             [id |-> S("author"), kind |-> "object",
              typeIds |-> <<"Team">>] >>],
          [id |-> "Author", fields |-> <<
             [id |-> S("title"), typeIds |-> <<"String">>] >>] >>] >>]

Schemas == {NoCms, BlogSchema, UnionSchema}

\* the identifiers the input paths are made of; nope is in no schema
SegIds == {"blog", "cms", "posts", "title", "author", "nope"}

\* a segment of an input path: an identifier or the empty string
Segments == {S(w) : w \in SegIds} \cup {<< >>}

RECURSIVE SegSeqs(_)
SegSeqs(n) ==
    IF n = 0 THEN {<< >>}
    ELSE LET shorter == SegSeqs(n - 1)
         IN  shorter \cup
             {Append(p, s) : p \in {q \in shorter : Len(q) = n - 1},
                             s \in Segments}

\* the dot-paths drawn as inputs: up to MaxSegments segments joined by dots
DotPaths == {Join(p) : p \in SegSeqs(MaxSegments)}

-----------------------------------------------------------------------------
(* resolveExpression *)

\* dsApi.getAllDataSources().map(d => d.id)
AllDataSourceIds(api) == Ids(api.sources)

\* dsApi.getDataSource(dsId): index of the source in api.sources, 0 if none
getDataSource(api, dsId) == FindIndex(api.sources, dsId)

\* queryables.find(q => q.id === fieldId), by index
RootFieldIndex(ds, fieldId) == FindIndex(ds.queryables, fieldId)

\* the token pushed for the first field segment
RootToken(dsId, rootField) ==
    [type |-> "property", propType |-> "field", dataSourceId |-> dsId,
     fieldId |-> rootField.id,
     label |-> OrElse(rootField, "label", rootField.id),
     typeIds |-> OrElse(rootField, "typeIds", << >>),
     kind |-> OrElse(rootField, "kind", "object")]

\* the token pushed for a nested field segment
FieldToken(field) ==
    [type |-> "property", propType |-> "field",
     fieldId |-> field.id,
     label |-> OrElse(field, "label", field.id),
     typeIds |-> OrElse(field, "typeIds", << >>),
     kind |-> OrElse(field, "kind", "scalar")]

\* mutant: the token replaces the sequence instead of being appended
PushToken_Overwrite(tokens, token) == <<token>>

\* mutant: unshift instead of push
PushToken_Prepend(tokens, token) == <<token>> \o tokens

\* tokens.push(token)
PushToken(tokens, token) == Append(tokens, token)

\* mutant: the includes() test is missing, every type is searched
ReachableTypes_All(allTypes, currentTypeIds) == allTypes

\* mutant: the types are visited in the order of currentTypeIds instead of
\* the order of the registry
RECURSIVE ReachableTypes_ByTypeIds(_, _)
ReachableTypes_ByTypeIds(allTypes, currentTypeIds) ==
    IF currentTypeIds = << >> THEN << >>
    ELSE SelectSeq(allTypes, LAMBDA t : t.id = Head(currentTypeIds))
            \o ReachableTypes_ByTypeIds(allTypes, Tail(currentTypeIds))

\* the types the loop does not skip: currentTypeIds.includes(t.id)
ReachableTypes(allTypes, currentTypeIds) ==
    SelectSeq(allTypes, LAMBDA t : t.id \in Range(currentTypeIds))

\* the fields the two nested loops visit when nothing matches, in order
RECURSIVE SearchedFields(_)
SearchedFields(types) ==
    IF types = << >> THEN << >>
    ELSE OrElse(Head(types), "fields", << >>) \o SearchedFields(Tail(types))

\* mutant: the candidates are the fields of the types of the source
\* instead of its queryables
QueryableIds_TypeFields(ds) == Ids(SearchedFields(ds.types))

\* available: queryables.map(f => f.id)
QueryableIds(ds) == Ids(ds.queryables)

\* mutant: the error names parts[seg] instead of fieldParts[seg]
FieldNotFound_OffByOne(parts, seg, nextFieldId, availableFields) ==
    [error |-> [msg |-> "Field not found at segment", segment |-> seg + 1,
                name |-> parts[seg + 1]],
     path_so_far |-> Join(SliceTo(parts, seg + 2)),
     available |-> availableFields]

\* the error returned when no field of a reachable type matches; seg is the
\* loop variable (an index into fieldParts, counted from 0)
FieldNotFound(parts, seg, nextFieldId, availableFields) ==
    [error |-> [msg |-> "Field not found at segment", segment |-> seg + 1,
                name |-> nextFieldId],
     path_so_far |-> Join(SliceTo(parts, seg + 2)),
     available |-> availableFields]

\* the for loop over the remaining segments, from seg on
RECURSIVE TraverseFields(_, _, _, _, _)
TraverseFields(ds, parts, seg, tokens, currentTypeIds) ==
    LET fieldParts == Tail(parts)
    IN  IF ~(seg < Len(fieldParts)) THEN [tokens |-> tokens]
        ELSE LET nextFieldId == fieldParts[seg + 1]
                 allTypes == OrElse(ds, "types", << >>)
                 searched == SearchedFields(ReachableTypes(allTypes, currentTypeIds))
                 hit == FindIndex(searched, nextFieldId)
             IN  IF hit = 0
                 THEN FieldNotFound(parts, seg, nextFieldId, Ids(searched))
                 ELSE TraverseFields(ds, parts, seg + 1,
                                     PushToken(tokens, FieldToken(searched[hit])),
                                     OrElse(searched[hit], "typeIds", << >>))

resolveExpression(api, path) ==
    IF ~api.available
    THEN [error |-> [msg |-> "Data source plugin not available. No CMS configured."]]
    ELSE LET parts == Split(path)
         IN  IF Len(parts) < 2
             THEN [error |-> [msg |-> "Expression must have at least 2 segments"]]
             ELSE LET dsId == Head(parts)
                      fieldParts == Tail(parts)
                      dsIdx == getDataSource(api, dsId)
                  IN  IF dsIdx = 0
                      THEN [error |-> [msg |-> "Data source not found", name |-> dsId],
                            available |-> AllDataSourceIds(api)]
                      ELSE LET ds == api.sources[dsIdx]
                               fieldId == fieldParts[1]
                               rootIdx == RootFieldIndex(ds, fieldId)
                           IN  IF rootIdx = 0
                               THEN [error |-> [msg |-> "Field not found", name |-> fieldId],
                                     available |-> QueryableIds(ds)]
                               ELSE LET rootField == ds.queryables[rootIdx]
                                    IN  TraverseFields(ds, parts, 1,
                                            PushToken(<< >>, RootToken(dsId, rootField)),
                                            OrElse(rootField, "typeIds", << >>))


-----------------------------------------------------------------------------
(* The resolver's specification: one call on an input drawn from the bounded
   sets above *)

Pending == [pending |-> TRUE]

NoComp == 0

\* let win; before any window was made
Undefined == 0

\* win = null, once a window was closed
Null == -1

\* the Electron shell while it is not looked at: not started
ShellParked ==
    [platform |-> "", ready |-> FALSE, win |-> Undefined, timers |-> 0,
     open |-> {}, made |-> 0, quit |-> FALSE]

\* the editor takes no part in resolveExpression
\* the bridge while it is not looked at: no script running, nothing sent
BridgeParked ==
    /\ bridge = [script |-> "", page |-> ""]
    /\ menu = << >>
    /\ shell = ShellParked

ResolverParked ==
    /\ dsApi = NoCms
    /\ dotPath = << >>
    /\ resolved = Pending

EditorParked ==
    /\ pages = << >>
    /\ selectedPage = ""
    /\ wrapper = << >>
    /\ comps = << >>
    /\ kids = << >>
    /\ parent = << >>
    /\ selected = NoComp
    /\ symbols = << >>
    /\ ret = [op |-> "none"]
    /\ rules = << >>
    /\ activeRule = << >>
    /\ device = ""
    /\ pageInfo = << >>

InitResolve ==
    /\ dsApi \in Schemas
    /\ dotPath \in DotPaths
    /\ resolved = Pending
    /\ EditorParked
    /\ BridgeParked

ResolveExpression ==
    /\ resolved = Pending
    /\ resolved' = resolveExpression(dsApi, dotPath)
    /\ UNCHANGED <<dsApi, dotPath, edVars, stVars, pgVars, brVars>>

NextResolve == ResolveExpression

SpecResolve == InitResolve /\ [][NextResolve]_vars

-----------------------------------------------------------------------------
(* What the resolver's claims speak about, stated on the schema alone *)

IsError(r) == "error" \in DOMAIN r
IsTokens(r) == "tokens" \in DOMAIN r
Returned == resolved # Pending

Parts == Split(dotPath)
NSeg == Len(Parts)

\* segment k of the input, the source id being segment 0
Segment(k) == Parts[k + 1]

\* the data source named by segment 0; meaningful when there is one
TheSource ==
    LET i == CHOOSE j \in 1..Len(dsApi.sources) :
                 /\ dsApi.sources[j].id = Segment(0)
                 /\ \A h \in 1..(j - 1) : dsApi.sources[h].id # Segment(0)
    IN  dsApi.sources[i]

HasSource == \E j \in 1..Len(dsApi.sources) : dsApi.sources[j].id = Segment(0)

TypeIdsOf(field) == IF "typeIds" \in DOMAIN field THEN Range(field.typeIds) ELSE {}

\* positions <<i, j>> (type i of the registry, its field j) of the fields
\* of the types whose id is in typeIds
FieldPositions(typeIds) ==
    UNION {{<<i, j>> : j \in 1..Len(TheSource.types[i].fields)} :
             i \in {h \in 1..Len(TheSource.types) : TheSource.types[h].id \in typeIds}}

FieldAt(pos) == TheSource.types[pos[1]].fields[pos[2]]

\* the positions, among those, of the fields called id
Matches(typeIds, id) == {pos \in FieldPositions(typeIds) : FieldAt(pos).id = id}

\* registry order: earlier type first, then earlier field
Before(a, b) == a[1] < b[1] \/ (a[1] = b[1] /\ a[2] < b[2])

FirstMatch(typeIds, id) ==
    CHOOSE pos \in Matches(typeIds, id) :
        \A other \in Matches(typeIds, id) : other = pos \/ Before(pos, other)

\* the type ids reachable from the token of segment k (k >= 1), every
\* segment up to k matching the schema
RECURSIVE Frontier(_)
Frontier(k) ==
    IF k = 1
    THEN LET q == CHOOSE j \in 1..Len(TheSource.queryables) :
                     /\ TheSource.queryables[j].id = Segment(1)
                     /\ \A h \in 1..(j - 1) : TheSource.queryables[h].id # Segment(1)
         IN  TypeIdsOf(TheSource.queryables[q])
    ELSE TypeIdsOf(FieldAt(FirstMatch(Frontier(k - 1), Segment(k))))

\* the ids that match the schema at position k, the earlier segments matching
ValidIdsAt(k) ==
    IF k = 0 THEN {dsApi.sources[j].id : j \in 1..Len(dsApi.sources)}
    ELSE IF k = 1
         THEN {TheSource.queryables[j].id : j \in 1..Len(TheSource.queryables)}
         ELSE {FieldAt(pos).id : pos \in FieldPositions(Frontier(k - 1))}

RECURSIVE ValidUpTo(_)
ValidUpTo(k) ==
    /\ k < NSeg
    /\ (k > 0 => ValidUpTo(k - 1))
    /\ Segment(k) \in ValidIdsAt(k)

AllSegmentsMatch == ValidUpTo(NSeg - 1)

\* k is the first segment, left to right, that does not match the schema
FirstInvalidIs(k) ==
    /\ k < NSeg
    /\ (k > 0 => ValidUpTo(k - 1))
    /\ Segment(k) \notin ValidIdsAt(k)


-----------------------------------------------------------------------------
(* Claims about resolveExpression, checked under SpecResolve *)

\* C2, as stated: for a dot-path of at least two segments that all match
\* the schema, the returned token sequence is as long as the path has
\* segments.
C2_LengthEqualsSegmentCount ==
    (Returned /\ dsApi.available /\ NSeg >= 2 /\ AllSegmentsMatch)
        => (IsTokens(resolved) /\ Len(resolved.tokens) = NSeg)

\* C2, amended: for a dot-path of at least two segments that all match the
\* schema, resolveExpression returns a token sequence with one token per
\* field segment: its length is the number of segments minus one (the
\* source id yields no token).
C2_LengthIsFieldSegmentCount ==
    (Returned /\ dsApi.available /\ NSeg >= 2 /\ AllSegmentsMatch)
        => (IsTokens(resolved) /\ Len(resolved.tokens) = NSeg - 1)

\* a four-segment path that matches the schema was resolved
C2_Witness ==
    /\ Returned /\ dsApi.available /\ NSeg = 4 /\ AllSegmentsMatch
    /\ IsTokens(resolved) /\ Len(resolved.tokens) = 3

\* C3: in every returned token sequence, the field of token i+1 is a field
\* of a type whose id is among the type ids of token i.
C3_AdjacentTokensChain ==
    (Returned /\ IsTokens(resolved)) =>
        \A i \in 1..(Len(resolved.tokens) - 1) :
            \E pos \in FieldPositions(Range(resolved.tokens[i].typeIds)) :
                /\ FieldAt(pos).id = resolved.tokens[i + 1].fieldId
                /\ TypeIdsOf(FieldAt(pos)) = Range(resolved.tokens[i + 1].typeIds)

\* a sequence of three tokens was returned, while the source has a type,
\* not reachable from the second token, that holds a field the path could
\* have named
C3_Witness ==
    /\ Returned /\ IsTokens(resolved) /\ Len(resolved.tokens) = 3
    /\ \E i \in 1..Len(TheSource.types) :
          /\ TheSource.types[i].id \notin Range(resolved.tokens[2].typeIds)
          /\ TheSource.types[i].fields # << >>

\* the result is the error of the nested-field loop
IsNestedError(r) == IsError(r) /\ "path_so_far" \in DOMAIN r

\* C4, as stated: when segment k >= 2 matches no field of a type reachable
\* from the previous token, the error names k, gives as path so far the
\* segments before k joined by dots, and lists every field id of every
\* searched type.
C4_NestedErrorReport ==
    \A k \in 2..(NSeg - 1) :
        (Returned /\ dsApi.available /\ FirstInvalidIs(k)) =>
            /\ IsNestedError(resolved)
            /\ resolved.error.segment = k
            /\ resolved.path_so_far = Join(SubSeq(Parts, 1, k))
            /\ Range(resolved.available) = ValidIdsAt(k)
            /\ Len(resolved.available) = Cardinality(FieldPositions(Frontier(k - 1)))

\* C5, as stated: for any dot-path with an invalid segment the result is an
\* error that names the first invalid segment, with a non-empty candidate
\* list whenever the schema has a valid id at that position.
C5_ErrorNamesFirstInvalid ==
    \A k \in 0..(NSeg - 1) :
        (Returned /\ dsApi.available /\ FirstInvalidIs(k)) =>
            /\ IsError(resolved)
            /\ "name" \in DOMAIN resolved.error
            /\ resolved.error.name = Segment(k)
            /\ ("segment" \in DOMAIN resolved.error => resolved.error.segment = k)
            /\ (ValidIdsAt(k) # {} =>
                    "available" \in DOMAIN resolved /\ resolved.available # << >>)

\* C5, amended: for any dot-path of at least two segments with an invalid
\* segment, the result is an error (never a token sequence) that names the
\* first invalid segment, with a non-empty candidate list whenever the
\* schema has a valid id at that position.
C5_ErrorNamesFirstInvalidOfPath ==
    \A k \in 0..(NSeg - 1) :
        (Returned /\ dsApi.available /\ NSeg >= 2 /\ FirstInvalidIs(k)) =>
            /\ IsError(resolved)
            /\ ~IsTokens(resolved)
            /\ "name" \in DOMAIN resolved.error
            /\ resolved.error.name = Segment(k)
            /\ ("segment" \in DOMAIN resolved.error => resolved.error.segment = k)
            /\ (ValidIdsAt(k) # {} =>
                    "available" \in DOMAIN resolved /\ resolved.available # << >>)

\* a path whose first two segments match and whose third and fourth do not
\* was rejected
C5_Witness ==
    /\ Returned /\ dsApi.available /\ NSeg = 4 /\ FirstInvalidIs(2)
    /\ Segment(3) \notin ValidIdsAt(2)
    /\ IsError(resolved)

\* C6: at the source level the candidates are all data source ids, at the
\* root-field level all queryable ids of the source; a field that is not a
\* queryable is rejected at segment 1 even if some type has it.
C6_RootLevelCandidates ==
    (Returned /\ dsApi.available /\ NSeg >= 2) =>
        /\ FirstInvalidIs(0) =>
              /\ IsError(resolved) /\ "available" \in DOMAIN resolved
              /\ Range(resolved.available) = ValidIdsAt(0)
              /\ Len(resolved.available) = Len(dsApi.sources)
        /\ FirstInvalidIs(1) =>
              /\ IsError(resolved) /\ "available" \in DOMAIN resolved
              /\ ~IsNestedError(resolved)
              /\ Range(resolved.available) = ValidIdsAt(1)
              /\ Len(resolved.available) = Len(TheSource.queryables)

\* segment 1 names a field of a type of the source that is no queryable,
\* and the call was rejected
C6_Witness ==
    /\ Returned /\ dsApi.available /\ NSeg >= 2 /\ FirstInvalidIs(1)
    /\ \E i \in 1..Len(TheSource.types) :
          \E j \in 1..Len(TheSource.types[i].fields) :
              TheSource.types[i].fields[j].id = Segment(1)
    /\ IsError(resolved)

\* segment k matches a field in two reachable types, with different type ids
Ambiguous(k) ==
    /\ k >= 2 /\ k < NSeg /\ ValidUpTo(k)
    /\ \E a, b \in Matches(Frontier(k - 1), Segment(k)) :
          /\ a[1] # b[1]
          /\ TypeIdsOf(FieldAt(a)) # TypeIdsOf(FieldAt(b))

\* C7, as stated: when a segment matches a field in two or more reachable
\* types with different type ids, the call picks none of them: it reports
\* the situation with the candidate set.
C7_AmbiguityReported ==
    \A k \in 2..(NSeg - 1) :
        (Returned /\ dsApi.available /\ Ambiguous(k)) =>
            /\ IsError(resolved)
            /\ resolved.error.name = Segment(k)
            /\ Range(resolved.available) = ValidIdsAt(k)

\* C7, amended: when a segment matches a field in two or more reachable
\* types, the call reports no ambiguity: it accepts the field of the first
\* of these types in the order of the source's type registry, and the later
\* segments are searched in the types of that field only.
C7_FirstMatchAccepted ==
    \A k \in 2..(NSeg - 1) :
        (Returned /\ dsApi.available /\ Ambiguous(k)) =>
            /\ IsTokens(resolved) \/ ~FirstInvalidIs(k)
            /\ IsTokens(resolved) =>
                  Range(resolved.tokens[k].typeIds)
                      = TypeIdsOf(FieldAt(FirstMatch(Frontier(k - 1), Segment(k))))
            /\ (IsError(resolved) /\ k + 1 < NSeg /\ FirstInvalidIs(k + 1)) =>
                  Range(resolved.available)
                      = {FieldAt(pos).id : pos \in FieldPositions(
                            TypeIdsOf(FieldAt(FirstMatch(Frontier(k - 1), Segment(k)))))}

\* a path with an ambiguous last segment was resolved to tokens
C7_Witness ==
    /\ Returned /\ dsApi.available /\ NSeg = 3 /\ Ambiguous(2)
    /\ IsTokens(resolved)

\* the schema of the scenario: source blog, queryable posts with type ids
\* [PostConnection], type PostConnection with a field title
ScenarioSchema ==
    /\ dsApi.available
    /\ \E i \in 1..Len(dsApi.sources) :
          /\ dsApi.sources[i].id = S("blog")
          /\ \E q \in 1..Len(dsApi.sources[i].queryables) :
                /\ dsApi.sources[i].queryables[q].id = S("posts")
                /\ dsApi.sources[i].queryables[q].typeIds = <<"PostConnection">>
          /\ \E t \in 1..Len(dsApi.sources[i].types) :
                /\ dsApi.sources[i].types[t].id = "PostConnection"
                /\ \E f \in 1..Len(dsApi.sources[i].types[t].fields) :
                      dsApi.sources[i].types[t].fields[f].id = S("title")

BlogPostsTitle == <<"blog", Dot, "posts", Dot, "title">>

\* C8: 'blog.posts.title' resolves, against the scenario schema, to two
\* tokens: posts, then title.
C8_BlogPostsTitle ==
    (Returned /\ ScenarioSchema /\ dotPath = BlogPostsTitle) =>
        /\ IsTokens(resolved)
        /\ Len(resolved.tokens) = 2
        /\ resolved.tokens[1].fieldId = S("posts")
        /\ resolved.tokens[2].fieldId = S("title")

\* 'blog.posts.title' was resolved against the scenario schema
C8_Witness ==
    /\ Returned /\ ScenarioSchema /\ dotPath = BlogPostsTitle
    /\ IsTokens(resolved)


-----------------------------------------------------------------------------
(* The editor: pages, component trees, selection.  Components are numbered
   in creation order (their ccid); a component that was detached keeps its
   number. *)

\* the model never holds more components than this, page wrappers and
\* symbol masters included
MaxComps == 4

TEXT_TAGS == {"p", "h1", "h2", "h3", "h4", "h5", "h6", "span", "a", "li",
              "td", "th", "label", "blockquote"}

\* a declaration map without declarations: {}
EmptyStyle == [p \in {} |-> ""]

\* an element of parsed markup
El(tag, type, style, children) ==
    [tag |-> tag, type |-> type, style |-> style, components |-> children]

\* the html arguments drawn as inputs
HtmlEmpty == << >>
HtmlHello == <<El("h1", "default", EmptyStyle, << >>)>>
HtmlHero ==
    <<El("section", "default", EmptyStyle,
         <<El("span", "default", [color |-> "red", margin |-> "0"], << >>)>>)>>
HtmlPair ==
    <<El("p", "default", [margin |-> "0"], << >>),
      El("img", "image", EmptyStyle, << >>)>>

Htmls == {HtmlEmpty, HtmlHello, HtmlHero, HtmlPair}

Positions == {"before", "after", "inside"}

\* the documents the editor may have loaded when the bridge starts:
\* a new site with one empty page, and a site with two pages, a placed
\* symbol instance and an orphaned symbol master
Wrapper == [tag |-> "body", type |-> "wrapper", editable |-> FALSE, style |-> EmptyStyle]

NewSite ==
    [pages |-> <<"home">>,
     wrapper |-> [pg \in {"home"} |-> 1],
     comps |-> <<Wrapper>>,
     kids |-> << << >> >>,
     parent |-> <<NoComp>>,
     symbols |-> << >>]

SiteWithSymbols ==
    [pages |-> <<"home", "about">>,
     wrapper |-> [pg \in {"home", "about"} |-> IF pg = "home" THEN 1 ELSE 2],
     comps |-> <<Wrapper, Wrapper,
                 [tag |-> "header", type |-> "default", editable |-> FALSE,
                  style |-> EmptyStyle, label |-> "Header", symbolId |-> "s1"],
                 [tag |-> "footer", type |-> "default", editable |-> FALSE,
                  style |-> EmptyStyle, label |-> "Footer", symbolId |-> "s2"]>>,
     kids |-> << << >>, <<3>>, << >>, << >> >>,
     parent |-> <<NoComp, NoComp, 2, NoComp>>,
     symbols |-> <<4>>]

Sites == {NewSite, SiteWithSymbols}

\* a site where the symbol Header has an orphaned master and an instance
\* placed on page about, and where a plain division of page home was named
\* Footer by hand
SiteWithCopies ==
    [pages |-> <<"home", "about">>,
     wrapper |-> [pg \in {"home", "about"} |-> IF pg = "home" THEN 1 ELSE 2],
     comps |-> <<Wrapper, Wrapper,
                 [tag |-> "header", type |-> "default", editable |-> FALSE,
                  style |-> EmptyStyle, label |-> "Header", symbolId |-> "s1"],
                 [tag |-> "header", type |-> "default", editable |-> FALSE,
                  style |-> EmptyStyle, label |-> "Header", symbolId |-> "s1"],
                 [tag |-> "div", type |-> "default", editable |-> FALSE,
                  style |-> EmptyStyle, customName |-> "Footer"]>>,
     kids |-> << <<5>>, <<3>>, << >>, << >>, << >> >>,
     parent |-> <<NoComp, NoComp, 2, NoComp, 1>>,
     symbols |-> <<4>>]

\* the labels asked for in symbol searches
Labels == {"Header", "Footer", "Nope"}

\* no walk throws
NoFault == "none"

\* a page without a name and without settings
NoPageInfo == [settings |-> [k \in {} |-> ""]]

-----------------------------------------------------------------------------
(* Helpers on component trees *)

\* parent.components().indexOf(c), counted from 0; -1 when absent
RECURSIVE IndexFrom(_, _, _)
IndexFrom(seq, c, i) ==
    IF i > Len(seq) THEN -1
    ELSE IF seq[i] = c THEN i - 1
    ELSE IndexFrom(seq, c, i + 1)

IndexOf(seq, c) == IndexFrom(seq, c, 1)

\* Collection.add(models, {at}): models placed at index at (counted from 0)
InsertAt(seq, at, items) ==
    SubSeq(seq, 1, at) \o items \o SubSeq(seq, at + 1, Len(seq))

\* the components reached by a depth-first walk from each of roots, in
\* the order a recursive forEach visits them; k is the children map
RECURSIVE Walk(_, _)
Walk(k, roots) ==
    IF roots = << >> THEN << >>
    ELSE <<Head(roots)>> \o Walk(k, k[Head(roots)]) \o Walk(k, Tail(roots))

\* seq without the element c
Without(seq, c) == SelectSeq(seq, LAMBDA x : x # c)

\* editor.getWrapper(): the root component of the selected page
getWrapper == wrapper[selectedPage]

\* the ccid the next created component gets
NextId == Len(comps) + 1

RECURSIVE CountNodes(_)
CountNodes(forest) ==
    IF forest = << >> THEN 0
    ELSE 1 + CountNodes(Head(forest).components) + CountNodes(Tail(forest))

\* the component made from a parsed element
NewComp(e) ==
    [tag |-> e.tag, type |-> e.type, editable |-> FALSE, style |-> e.style]

\* components().add(html): the components made from the parsed markup,
\* numbered from firstId in document order, the top-level ones owned by par
RECURSIVE Create(_, _, _)
Create(forest, firstId, par) ==
    IF forest = << >>
    THEN [tops |-> << >>, comps |-> << >>, kids |-> << >>, parent |-> << >>]
    ELSE LET e == Head(forest)
             inner == Create(e.components, firstId + 1, firstId)
             rest == Create(Tail(forest),
                            firstId + 1 + CountNodes(e.components), par)
         IN  [tops |-> <<firstId>> \o rest.tops,
              comps |-> <<NewComp(e)>> \o inner.comps \o rest.comps,
              kids |-> <<inner.tops>> \o inner.kids \o rest.kids,
              parent |-> <<par>> \o inner.parent \o rest.parent]


-----------------------------------------------------------------------------
(* component: add, select *)

\* mutant: the index is not incremented for 'after'
InsertIndex_NoIncrement(siblings, sel, position) == IndexOf(siblings, sel)

\* idx = parent.components().indexOf(sel); if (position === 'after') idx++
InsertIndex(siblings, sel, position) ==
    IF position = "after" THEN IndexOf(siblings, sel) + 1
    ELSE IndexOf(siblings, sel)

\* mutant: strip does not recurse into the children
StripTargets_TopOnly(k, added) == added

\* the components strip visits: added.forEach(strip), strip recursing
\* through c.components().forEach(strip)
StripTargets(k, added) == Walk(k, added)

\* mutant: setEditable does not recurse into the children
EditableTargets_TopOnly(k, added) == added

\* the components setEditable visits, likewise
EditableTargets(k, added) == Walk(k, added)

HasStyle(c) == DOMAIN c.style # {}

\* the warnings pushed by strip, in visiting order
RECURSIVE StripWarnings(_, _)
StripWarnings(cs, targets) ==
    IF targets = << >> THEN << >>
    ELSE (IF HasStyle(cs[Head(targets)])
          THEN <<[msg |-> "Stripped inline styles from", id |-> Head(targets)]>>
          ELSE << >>) \o StripWarnings(cs, Tail(targets))

\* the components after strip: c.setStyle({}) where there was a style
Stripped(cs, targets) ==
    [c \in DOMAIN cs |->
        IF c \in Range(targets) /\ HasStyle(cs[c])
        THEN [cs[c] EXCEPT !.style = EmptyStyle]
        ELSE cs[c]]

\* String.prototype.toLowerCase on a tag name
ToLowerCase(tag) ==
    CASE tag = "P" -> "p"
      [] tag = "H1" -> "h1"
      [] tag = "DIV" -> "div"
      [] OTHER -> tag

\* the components after setEditable
MadeEditable(cs, targets) ==
    [c \in DOMAIN cs |->
        IF c \in Range(targets) /\ ToLowerCase(cs[c].tag) \in TEXT_TAGS
        THEN [cs[c] EXCEPT !.type = "text", !.editable = TRUE]
        ELSE cs[c]]

\* mutant: the last added component is selected
SelectAdded_Last(added, sel) ==
    IF Len(added) > 0 THEN added[Len(added)] ELSE sel

\* if (added.length > 0) editor.select(added[0])
SelectAdded(added, sel) ==
    IF Len(added) > 0 THEN added[1] ELSE sel

\* addComponent: the parent the markup is added to, NoComp when the
\* selected component has none to offer
AddParent(position) ==
    IF selected = NoComp THEN getWrapper
    ELSE IF position = "inside" THEN selected
    ELSE parent[selected]

\* addComponent: the index the markup is added at, the end of the
\* collection when opts carries none
AddAt(position) ==
    IF selected = NoComp \/ position = "inside"
    THEN Len(kids[AddParent(position)])
    ELSE InsertIndex(kids[AddParent(position)], selected, position)

AddComponent ==
    \E html \in Htmls, position \in Positions :
        /\ Len(comps) + CountNodes(html) <= MaxComps
        /\ LET call == [op |-> "addComponent", html |-> html, position |-> position]
           IN  IF AddParent(position) = NoComp
               THEN /\ ret' = call @@ [error |-> "Selected component has no parent"]
                    /\ UNCHANGED <<pages, selectedPage, wrapper, comps, kids,
                                   parent, selected, symbols>>
               ELSE LET par == AddParent(position)
                        at == AddAt(position)
                        made == Create(html, NextId, par)
                        added == made.tops
                        kids1 == [kids EXCEPT ![par] = InsertAt(@, at, added)]
                                    \o made.kids
                        comps1 == comps \o made.comps
                        warnings == StripWarnings(comps1, StripTargets(kids1, added))
                        comps2 == Stripped(comps1, StripTargets(kids1, added))
                        comps3 == MadeEditable(comps2, EditableTargets(kids1, added))
                    IN  /\ comps' = comps3
                        /\ kids' = kids1
                        /\ parent' = parent \o made.parent
                        /\ selected' = SelectAdded(added, selected)
                        /\ ret' = call @@ [success |-> TRUE,
                                           component_ids |-> added,
                                           warnings |-> warnings]
                        /\ UNCHANGED <<pages, selectedPage, wrapper, symbols>>
        /\ UNCHANGED <<brVars, rsVars, stVars, pgVars>>

\* mutant: components that left the tree are found as well
findComponent_Detached(id) == IF id \in DOMAIN comps THEN id ELSE NoComp

\* findComponent(editor, id): the walk from the wrapper of the selected page
findComponent(id) ==
    IF id \in Range(Walk(kids, <<getWrapper>>)) THEN id ELSE NoComp

SelectComponent ==
    \E componentId \in 1..MaxComps :
        /\ LET c == findComponent(componentId)
               call == [op |-> "selectComponent", component_id |-> componentId]
           IN  IF c = NoComp
               THEN /\ ret' = call @@ [error |-> "Component not found"]
                    /\ UNCHANGED selected
               ELSE /\ selected' = c
                    /\ ret' = call @@ [success |-> TRUE, id |-> c,
                                       tag |-> comps[c].tag]
        /\ UNCHANGED <<pages, selectedPage, wrapper, comps, kids, parent, symbols>>
        /\ UNCHANGED <<brVars, rsVars, stVars, pgVars>>

-----------------------------------------------------------------------------
(* component: get_tree, get, update, move, remove *)

NoComponentSelected ==
    "No component selected. Use component(action:select, component_id:...) first."

NoComponentToMove ==
    "No component selected to move. Use component(action:select, component_id:...) first."

\* the depth and budget arguments drawn as inputs
MaxDepths == 0..2
MaxCounts == 0..3

\* getTree.walk: the node walk(c, d) returns, null being << >>, and the
\* running count after the call; walkChildren is the loop over
\* c.components().models, pushing the nodes that are not null
RECURSIVE walkNode(_, _, _, _, _)
RECURSIVE walkChildren(_, _, _, _, _)
walkNode(c, d, count, maxDepth, maxCount) ==
    IF count >= maxCount THEN [node |-> << >>, count |-> count]
    ELSE LET base == [id |-> c, tag |-> comps[c].tag, type |-> comps[c].type]
             inner == walkChildren(kids[c], d + 1, count + 1, maxDepth, maxCount)
         IN  IF d < maxDepth
             THEN [node |-> base @@ [children |-> inner.nodes],
                   count |-> inner.count]
             ELSE [node |-> base @@ [children |-> << >>,
                                     children_count |-> Len(kids[c])],
                   count |-> count + 1]

walkChildren(models, d, count, maxDepth, maxCount) ==
    IF models = << >> THEN [nodes |-> << >>, count |-> count]
    ELSE LET cn == walkNode(Head(models), d, count, maxDepth, maxCount)
             rest == walkChildren(Tail(models), d, cn.count, maxDepth, maxCount)
         IN  [nodes |-> (IF cn.node = << >> THEN << >> ELSE <<cn.node>>)
                           \o rest.nodes,
              count |-> rest.count]

\* getTree(editor, maxDepth, maxCount)
getTree(maxDepth, maxCount) == walkNode(getWrapper, 0, 0, maxDepth, maxCount).node

GetTree ==
    \E maxDepth \in MaxDepths, maxCount \in MaxCounts :
        /\ ret' = [op |-> "getTree", max_depth |-> maxDepth,
                   max_count |-> maxCount,
                   tree |-> getTree(maxDepth, maxCount)]
        /\ UNCHANGED <<edVarsButRet, brVars, rsVars, stVars, pgVars>>

GetComponent ==
    /\ LET c == selected
       IN  ret' = IF c = NoComp
                  THEN [op |-> "getComponent", error |-> NoComponentSelected]
                  ELSE [op |-> "getComponent", id |-> c, tag |-> comps[c].tag,
                        type |-> comps[c].type,
                        editable |-> comps[c].editable,
                        children_count |-> Len(kids[c])]
    /\ UNCHANGED <<edVarsButRet, brVars, rsVars, stVars, pgVars>>

\* the content and attributes arguments; a key left out is an argument
\* that is null
UpdateInputs ==
    {[content |-> "Hi"], [attributes |-> [href |-> "#"]],
     [content |-> "Hi", attributes |-> [href |-> "#"]],
     [k \in {} |-> ""]}

\* c.addAttributes(attributes): the attributes given replace those of the
\* same name and the others are kept
addAttributes(c, attributes) ==
    attributes @@ OrElse(comps[c], "attributes", [k \in {} |-> ""])

\* updateComponent(editor, content, attributes)
UpdateComponent ==
    \E args \in UpdateInputs :
        LET c == selected
            withContent == IF "content" \in DOMAIN args
                           THEN [content |-> args.content] @@ comps[c]
                           ELSE comps[c]
            updated == IF "attributes" \in DOMAIN args
                       THEN [attributes |-> addAttributes(c, args.attributes)]
                                @@ withContent
                       ELSE withContent
        IN  /\ IF c = NoComp
               THEN /\ ret' = [op |-> "updateComponent", args |-> args,
                               error |-> NoComponentSelected]
                    /\ UNCHANGED comps
               ELSE /\ comps' = [comps EXCEPT ![c] = updated]
                    /\ ret' = [op |-> "updateComponent", args |-> args,
                               success |-> TRUE, id |-> c]
            /\ UNCHANGED <<pages, selectedPage, wrapper, kids, parent, selected,
                           symbols>>
            /\ UNCHANGED <<brVars, rsVars, stVars, pgVars>>

\* an index that was not given: opts without at
NoIndex == -1

\* mutant: the index is not incremented for 'after'
MoveIndex_NoIncrement(siblings, target, position) == IndexOf(siblings, target)

\* idx = parent.components().indexOf(target); if (position === 'after') idx++
MoveIndex(siblings, target, position) ==
    IF position = "after" THEN IndexOf(siblings, target) + 1
    ELSE IndexOf(siblings, target)

\* c.move(dest, { at }): nothing when c sits in dest at index at or right
\* before it; else c leaves its collection and joins dest's at index at,
\* one less when it came from before that index in the same collection, or
\* at the end without an index
Moved(c, dest, at) ==
    LET from == parent[c]
        index == IF from = NoComp THEN -1 ELSE IndexOf(kids[from], c)
        sameParent == dest = from
        sameIndex == at # NoIndex /\ (index = at \/ index = at - 1)
        at1 == IF sameParent /\ at > 0 /\ at > index THEN at - 1 ELSE at
        kids1 == IF from = NoComp THEN kids
                 ELSE [kids EXCEPT ![from] = Without(@, c)]
        at2 == IF at1 = NoIndex \/ at1 > Len(kids1[dest])
               THEN Len(kids1[dest]) ELSE at1
    IN  IF sameParent /\ sameIndex
        THEN [kids |-> kids, parent |-> parent]
        ELSE [kids |-> [kids1 EXCEPT ![dest] = InsertAt(@, at2, <<c>>)],
              parent |-> [parent EXCEPT ![c] = dest]]

\* moveComponent(editor, targetId, position).  Moving the root of the page
\* is left out: the root would become its own descendant and no walk from
\* it would end.
MoveComponent ==
    \E targetId \in 1..MaxComps, position \in Positions :
        LET c == selected
            target == findComponent(targetId)
            call == [op |-> "moveComponent", target_id |-> targetId,
                     position |-> position]
        IN  /\ c # getWrapper
            /\ IF c = NoComp
               THEN /\ ret' = call @@ [error |-> NoComponentToMove]
                    /\ UNCHANGED <<kids, parent>>
               ELSE IF target = NoComp
               THEN /\ ret' = call @@ [error |-> "Target component not found"]
                    /\ UNCHANGED <<kids, parent>>
               ELSE IF position = "inside"
               THEN /\ kids' = Moved(c, target, NoIndex).kids
                    /\ parent' = Moved(c, target, NoIndex).parent
                    /\ ret' = call @@ [success |-> TRUE, id |-> c]
               ELSE IF parent[target] = NoComp
               THEN /\ ret' = call @@ [error |-> "Target has no parent"]
                    /\ UNCHANGED <<kids, parent>>
               ELSE LET par == parent[target]
                        idx == MoveIndex(kids[par], target, position)
                    IN  /\ kids' = Moved(c, par, idx).kids
                        /\ parent' = Moved(c, par, idx).parent
                        /\ ret' = call @@ [success |-> TRUE, id |-> c]
            /\ UNCHANGED <<pages, selectedPage, wrapper, comps, selected, symbols>>
            /\ UNCHANGED <<brVars, rsVars, stVars, pgVars>>

\* c.remove() for a component held by a collection: it leaves the
\* collection, with its subtree
Detached(c) ==
    [kids |-> [kids EXCEPT ![parent[c]] = Without(@, c)],
     parent |-> [parent EXCEPT ![c] = NoComp]]

\* removeComponent(editor); keepSelection tells whether the editor keeps
\* the removed component selected, clearRoot whether remove() of a
\* component that no collection holds empties its children
RemoveComponent ==
    \E keepSelection \in BOOLEAN, clearRoot \in BOOLEAN :
        LET c == selected
        IN  /\ IF c = NoComp
               THEN /\ ret' = [op |-> "removeComponent",
                               error |-> NoComponentSelected]
                    /\ keepSelection /\ clearRoot
                    /\ UNCHANGED <<kids, parent, selected>>
               ELSE IF parent[c] = NoComp
               THEN /\ kids' = IF clearRoot THEN [kids EXCEPT ![c] = << >>]
                               ELSE kids
                    /\ parent' = [x \in DOMAIN parent |->
                                    IF clearRoot /\ parent[x] = c
                                    THEN NoComp ELSE parent[x]]
                    /\ keepSelection
                    /\ selected' = selected
                    /\ ret' = [op |-> "removeComponent", success |-> TRUE,
                               removed |-> c]
               ELSE /\ kids' = Detached(c).kids
                    /\ parent' = Detached(c).parent
                    /\ clearRoot
                    /\ selected' = IF keepSelection THEN selected ELSE NoComp
                    /\ ret' = [op |-> "removeComponent", success |-> TRUE,
                               removed |-> c]
            /\ UNCHANGED <<pages, selectedPage, wrapper, comps, symbols>>
            /\ UNCHANGED <<brVars, rsVars, stVars, pgVars>>

\* the symbols:add command on component c: a copy of c and its subtree,
\* held by no parent, joins the symbols under the label, and c becomes an
\* instance of it
SymbolAdded(c, label) ==
    LET sub == Walk(kids, <<c>>)
        first == NextId
        idOf(x) == first + IndexOf(sub, x)
        mark == [label |-> label, symbolId |-> ToString(first)]
    IN  [comps |-> [comps EXCEPT ![c] = mark @@ @]
                      \o [i \in DOMAIN sub |->
                            IF i = 1 THEN mark @@ comps[c] ELSE comps[sub[i]]],
         kids |-> kids \o [i \in DOMAIN sub |->
                             [j \in DOMAIN kids[sub[i]] |->
                                 idOf(kids[sub[i]][j])]],
         parent |-> parent \o [i \in DOMAIN sub |->
                                 IF i = 1 THEN NoComp
                                 ELSE idOf(parent[sub[i]])],
         symbols |-> Append(symbols, first)]

\* createSymbol(editor, label, icon)
CreateSymbol ==
    \E label \in Labels :
        LET c == selected
            call == [op |-> "createSymbol", label |-> label]
        IN  /\ IF c = NoComp
               THEN /\ ret' = call @@ [error |->
                         "No component selected. Select a component first with component(action:select)."]
                    /\ UNCHANGED <<comps, kids, parent, symbols>>
               ELSE /\ Len(comps) + Len(Walk(kids, <<c>>)) <= MaxComps
                    /\ comps' = SymbolAdded(c, label).comps
                    /\ kids' = SymbolAdded(c, label).kids
                    /\ parent' = SymbolAdded(c, label).parent
                    /\ symbols' = SymbolAdded(c, label).symbols
                    /\ ret' = call @@ [success |-> TRUE]
            /\ UNCHANGED <<pages, selectedPage, wrapper, selected>>
            /\ UNCHANGED <<brVars, rsVars, stVars, pgVars>>

-----------------------------------------------------------------------------
(* page: select *)

PageIds == {"home", "about", "nope"}

\* no page: what find returns when nothing matches
NoPage == ""

\* pg.get('name') ?? pg.id
PageName(pg) == OrElse(pageInfo[pg], "name", pg)

\* editor.Pages.get(pageId)
\*    ?? editor.Pages.getAll().find(pg => (pg.get('name') ?? pg.id) === pageId)
findPage(pageId) ==
    IF pageId \in Range(pages) THEN pageId
    ELSE LET named == SelectSeq(pages, LAMBDA pg : PageName(pg) = pageId)
         IN  IF named = << >> THEN NoPage ELSE Head(named)

SelectPage ==
    \E pageId \in PageIds :
        /\ LET call == [op |-> "selectPage", page_id |-> pageId]
               p == findPage(pageId)
           IN  IF p = NoPage
               THEN /\ ret' = call @@ [error |-> "Page not found", available |-> pages]
                    /\ UNCHANGED selectedPage
               ELSE /\ selectedPage' = p
                    /\ ret' = call @@ [success |-> TRUE, id |-> p]
        /\ UNCHANGED <<pages, wrapper, comps, kids, parent, selected, symbols>>
        /\ UNCHANGED <<brVars, rsVars, stVars, pgVars>>


-----------------------------------------------------------------------------
(* symbol: the searches *)

\* (s.get('label') ?? s.get('custom-name')) === label
OrphanHasLabel(c, label) ==
    IF "label" \in DOMAIN c THEN c.label = label
    ELSE IF "customName" \in DOMAIN c THEN c.customName = label
    ELSE FALSE

\* c.get('label') ?? c.get('custom-name') ?? ''
TreeLabel(c) == OrElse(c, "label", OrElse(c, "customName", ""))

\* the first element of seq, NoComp when there is none (find, ?? null)
FirstOf(seq) == IF seq = << >> THEN NoComp ELSE Head(seq)

\* findInTree(root): the first component of the walk with the label
findInTree(root, label) ==
    FirstOf(SelectSeq(Walk(kids, <<root>>), LAMBDA c : TreeLabel(comps[c]) = label))

\* the loop over the pages, from the i-th on: the page is selected, then
\* its tree is walked; when the walk of page fault throws, the exception
\* leaves the loop with that page selected.  page is the page selected when
\* the loop is left, visited the pages the loop selected.
RECURSIVE SearchPages(_, _, _, _)
SearchPages(i, label, fault, cur) ==
    IF i > Len(pages)
    THEN [found |-> NoComp, threw |-> FALSE, page |-> cur, visited |-> << >>]
    ELSE IF pages[i] = fault
         THEN [found |-> NoComp, threw |-> TRUE, page |-> pages[i],
               visited |-> <<pages[i]>>]
         ELSE LET hit == findInTree(wrapper[pages[i]], label)
                  rest == SearchPages(i + 1, label, fault, pages[i])
              IN  IF hit # NoComp
                  THEN [found |-> hit, threw |-> FALSE, page |-> pages[i],
                        visited |-> <<pages[i]>>]
                  ELSE [rest EXCEPT !.visited = <<pages[i]>> \o @]

\* the page selected when the search is over: editor.Pages.select(saved)
\* follows the loop and is not reached by an exception
PageAfterSearch(saved, threw, cur) == IF threw THEN cur ELSE saved

\* mutant: the orphaned masters are not looked at
FirstOrphan_None(label) == NoComp

\* syms.find(s => (s.get('label') ?? s.get('custom-name')) === label)
FirstOrphan(label) ==
    FirstOf(SelectSeq(symbols, LAMBDA c : OrphanHasLabel(comps[c], label)))

\* findSymbolByLabel(editor, label): what it returns and the page it leaves
\* selected
findSymbolByLabel(label, fault) ==
    LET orphan == FirstOrphan(label)
        saved == selectedPage
        r == SearchPages(1, label, fault, saved)
    IN  IF orphan # NoComp
        THEN [found |-> orphan, threw |-> FALSE, page |-> saved,
              visited |-> << >>]
        ELSE [found |-> r.found, threw |-> r.threw,
              page |-> PageAfterSearch(saved, r.threw, r.page),
              visited |-> r.visited]

FindSymbolByLabel ==
    \E label \in Labels, fault \in Range(pages) \cup {NoFault} :
        /\ LET r == findSymbolByLabel(label, fault)
           IN  /\ selectedPage' = r.page
               /\ ret' = [op |-> "findSymbolByLabel", label |-> label,
                          threw |-> r.threw, found |-> r.found,
                          visited |-> r.visited]
        /\ UNCHANGED <<pages, wrapper, comps, kids, parent, selected, symbols>>
        /\ UNCHANGED <<brVars, rsVars, stVars, pgVars>>

\* the entries findAllSymbols pushes for the components of a walk, seen
\* being the labels already listed
RECURSIVE PlacedSymbols(_, _)
PlacedSymbols(walk, seen) ==
    IF walk = << >> THEN << >>
    ELSE LET c == Head(walk)
             lbl == TreeLabel(comps[c])
         IN  IF lbl # "" /\ "symbolId" \in DOMAIN comps[c] /\ lbl \notin seen
             THEN <<[label |-> lbl, id |-> c, placed |-> TRUE]>>
                      \o PlacedSymbols(Tail(walk), seen \cup {lbl})
             ELSE PlacedSymbols(Tail(walk), seen)

\* the walks of all pages, one after the other
RECURSIVE WalkPages(_)
WalkPages(i) ==
    IF i > Len(pages) THEN << >>
    ELSE Walk(kids, <<wrapper[pages[i]]>>) \o WalkPages(i + 1)

\* syms.map(s => ({label, id, placed: false}))
RECURSIVE OrphanSymbols(_)
OrphanSymbols(syms) ==
    IF syms = << >> THEN << >>
    ELSE <<[label |-> TreeLabel(comps[Head(syms)]), id |-> Head(syms),
            placed |-> FALSE]>> \o OrphanSymbols(Tail(syms))

\* findAllSymbols(editor), no walk throwing
findAllSymbols ==
    LET result == OrphanSymbols(symbols)
    IN  result \o PlacedSymbols(WalkPages(1), {result[i].label : i \in DOMAIN result})

FindAllSymbols ==
    \E fault \in Range(pages) \cup {NoFault} :
        /\ IF fault = NoFault
           THEN /\ selectedPage' = PageAfterSearch(selectedPage, FALSE, pages[Len(pages)])
                /\ ret' = [op |-> "findAllSymbols", threw |-> FALSE,
                           result |-> findAllSymbols]
           ELSE /\ selectedPage' = PageAfterSearch(selectedPage, TRUE, fault)
                /\ ret' = [op |-> "findAllSymbols", threw |-> TRUE]
        /\ UNCHANGED <<pages, wrapper, comps, kids, parent, selected, symbols>>
        /\ UNCHANGED <<brVars, rsVars, stVars, pgVars>>

-----------------------------------------------------------------------------
(* style: the declarations the browser accepts, the rules, the handlers.
   A selector string is a sequence of atoms like a dot-path: .hero is
   <<".", "hero">>, hero is <<"hero">>.  A rule is keyed by its selector
   and the device it was activated under. *)

\* StyleManager.getSelected() when no rule is selected
NoRule == << >>

\* the property names and values drawn as inputs
CssProps == {"color", "margin"}
CssValues == {"red", "blue", "0"}

\* dummy.style.setProperty(prop, value) followed by a non-empty
\* dummy.style.getPropertyValue(prop): the browser kept the declaration
BrowserAccepts(prop, value) ==
    \/ prop = "color" /\ value \in {"red", "blue"}
    \/ prop = "margin" /\ value = "0"

\* the props arguments drawn as inputs: Object.entries(props), each
\* property at most once
Batches ==
    {<< >>}
    \cup {<<[property |-> pr, value |-> v]>> : pr \in CssProps, v \in CssValues}
    \cup {<<[property |-> p1, value |-> v1], [property |-> p2, value |-> v2]>> :
            <<p1, p2>> \in {pp \in CssProps \X CssProps : pp[1] # pp[2]},
            <<v1, v2>> \in CssValues \X CssValues}

\* validateCssProperties(props)
validateCssProperties(props) ==
    [valid |-> SelectSeq(props, LAMBDA e : BrowserAccepts(e.property, e.value)),
     invalid |-> SelectSeq(props, LAMBDA e : ~BrowserAccepts(e.property, e.value))]

\* the properties a batch names
BatchKeys(props) == {props[i].property : i \in DOMAIN props}

\* the value a batch gives a property it names
BatchValue(props, pr) ==
    props[CHOOSE i \in DOMAIN props : props[i].property = pr].value

\* mutant: a declaration that is already in the rule is dropped
MergeStyle_OnlyChanged(existing, props) ==
    LET changed == {pr \in BatchKeys(props) :
                       pr \notin DOMAIN existing
                          \/ existing[pr] # BatchValue(props, pr)}
        kept == DOMAIN existing \ BatchKeys(props)
    IN  [pr \in changed \cup kept |->
            IF pr \in changed THEN BatchValue(props, pr) ELSE existing[pr]]

\* { ...existing, ...props }
MergeStyle(existing, props) ==
    [pr \in DOMAIN existing \cup BatchKeys(props) |->
        IF pr \in BatchKeys(props) THEN BatchValue(props, pr) ELSE existing[pr]]

\* mutant: every declaration is removed
RemoveKey_All(style, property) == EmptyStyle

\* delete style[property]
RemoveKey(style, property) ==
    [pr \in DOMAIN style \ {property} |-> style[pr]]

\* mutant: a missing rule is not noticed
RuleMissing_Never(rule) == FALSE

\* if (!rule)
RuleMissing(rule) == rule = NoRule

\* rule.getStyle()
RuleStyle(rule) == IF rule \in DOMAIN rules THEN rules[rule] ELSE EmptyStyle

\* rule.selectorsToString()
selectorsToString(rule) == IF rule = NoRule THEN << >> ELSE rule[1]

\* mutant: the rule written is the only one kept
WithStyle_Alone(rule, style) == (rule :> style)

\* rule.setStyle(style)
WithStyle(rule, style) == (rule :> style) @@ rules

NoSelectorActive ==
    "No selector active. Use selector(action:select, selector:.classname) first."

\* getStyle(editor): what it returns
getStyle ==
    LET rule == activeRule
    IN  IF RuleMissing(rule) THEN [error |-> NoSelectorActive]
        ELSE [selector |-> selectorsToString(rule), style |-> RuleStyle(rule)]

\* setStyle(editor, props): what it returns and the rules it leaves
setStyle(props) ==
    LET rule == activeRule
        invalid == validateCssProperties(props).invalid
        merged == MergeStyle(RuleStyle(rule), props)
    IN  IF RuleMissing(rule)
        THEN [ret |-> [error |-> NoSelectorActive], rules |-> rules]
        ELSE IF Len(invalid) > 0
        THEN [ret |-> [error |-> "Invalid CSS properties", invalid |-> invalid],
              rules |-> rules]
        ELSE [ret |-> [success |-> TRUE,
                       selector |-> selectorsToString(rule),
                       applied |-> props,
                       resulting_style |-> merged],
              rules |-> WithStyle(rule, merged)]

\* deleteStyleProperty(editor, property)
deleteStyleProperty(property) ==
    LET rule == activeRule
    IN  IF RuleMissing(rule)
        THEN [ret |-> [error |-> NoSelectorActive], rules |-> rules]
        ELSE [ret |-> [success |-> TRUE, removed |-> property],
              rules |-> WithStyle(rule, RemoveKey(RuleStyle(rule), property))]

GetStyle ==
    /\ ret' = [op |-> "getStyle"] @@ getStyle
    /\ UNCHANGED <<pages, selectedPage, wrapper, comps, kids, parent, selected,
                   symbols>>
    /\ UNCHANGED <<brVars, rsVars, stVars, pgVars>>

SetStyle ==
    \E props \in Batches :
        /\ ret' = [op |-> "setStyle", props |-> props] @@ setStyle(props).ret
        /\ rules' = setStyle(props).rules
        /\ UNCHANGED <<pages, selectedPage, wrapper, comps, kids, parent,
                       selected, symbols>>
        /\ UNCHANGED <<brVars, rsVars, activeRule, pgVars>>

DeleteStyleProperty ==
    \E property \in CssProps :
        /\ ret' = [op |-> "deleteStyleProperty", property |-> property]
                     @@ deleteStyleProperty(property).ret
        /\ rules' = deleteStyleProperty(property).rules
        /\ UNCHANGED <<pages, selectedPage, wrapper, comps, kids, parent,
                       selected, symbols>>
        /\ UNCHANGED <<brVars, rsVars, activeRule, pgVars>>

-----------------------------------------------------------------------------
(* selector: create, select *)

\* the selector strings and class names drawn as inputs
SelectorInputs ==
    {<<".", "hero">>, <<"hero">>, <<".", "card">>, <<"card">>,
     <<"#", "hero">>, <<".">>}

ClassNameInputs == {<<"card">>, <<".", "card">>, <<"1x">>}

\* c.getClasses()
getClasses(c) == OrElse(comps[c], "classes", << >>)

\* /^[a-zA-Z_-][a-zA-Z0-9_-]*$/.test(className)
IsClassName(className) ==
    /\ Len(className) = 1
    /\ className[1] \notin {".", "#", "1x"}

\* asApi.complexSelectorFromString(selectorStr, '') returns a selector:
\* a tag name, or a class or an id made of a prefix and a name
ParsesAsSelector(selectorStr) ==
    \/ Len(selectorStr) = 1 /\ selectorStr[1] \notin {".", "#"}
    \/ /\ Len(selectorStr) = 2
       /\ selectorStr[1] \in {".", "#"}
       /\ selectorStr[2] \notin {".", "#"}

\* asApi.matchSelectorAll(selectorStr, [c])
matchSelectorAll(selectorStr, c) ==
    IF Len(selectorStr) = 1 THEN comps[c].tag = selectorStr[1]
    ELSE IF selectorStr[1] = "." THEN selectorStr[2] \in Range(getClasses(c))
    ELSE OrElse(comps[c], "id", "") = selectorStr[2]

\* asApi.editStyle(editor, selectorStr): the rule of the selector under the
\* selected device becomes the selected rule, and is created when missing
editStyle(selectorStr) ==
    LET rule == <<selectorStr, device>>
    IN  [rules |-> IF rule \in DOMAIN rules THEN rules
                   ELSE WithStyle(rule, EmptyStyle),
         activeRule |-> rule]

\* selectSelector(editor, selectorStr), asApi telling whether the advanced
\* selector plugin is there
selectSelector(selectorStr, asApi) ==
    LET c == selected
        idle == [rules |-> rules, activeRule |-> activeRule]
    IN  IF c = NoComp
        THEN idle @@ [ret |-> [error |->
                 "No component selected. Use component(action:select) first."]]
        ELSE IF ~asApi
        THEN idle @@ [ret |-> [error |-> "Advanced selector plugin not available"]]
        ELSE IF ~ParsesAsSelector(selectorStr)
        THEN idle @@ [ret |-> [error |-> "Invalid selector"]]
        ELSE IF ~matchSelectorAll(selectorStr, c)
        THEN idle @@ [ret |-> [error |->
                 "Selector does not match the selected component"]]
        ELSE editStyle(selectorStr)
                @@ [ret |-> [success |-> TRUE, selector |-> selectorStr]]

SelectSelector ==
    \E selectorStr \in SelectorInputs, asApi \in BOOLEAN :
        LET r == selectSelector(selectorStr, asApi)
        IN  /\ ret' = [op |-> "selectSelector", arg |-> selectorStr] @@ r.ret
            /\ rules' = r.rules
            /\ activeRule' = r.activeRule
            /\ UNCHANGED <<pages, selectedPage, wrapper, comps, kids, parent,
                           selected, symbols>>
            /\ UNCHANGED <<brVars, rsVars, pgVars>>

\* c.addClass(className): the class is added unless the component has it
addClass(c, className) ==
    IF className \in Range(getClasses(c)) THEN getClasses(c)
    ELSE Append(getClasses(c), className)

CreateSelector ==
    \E className \in ClassNameInputs :
        LET c == selected
            call == [op |-> "createSelector", class_name |-> className]
        IN  /\ IF c = NoComp
               THEN /\ ret' = call @@ [error |->
                         "No component selected. Use component(action:select) first."]
                    /\ UNCHANGED comps
               ELSE IF ~IsClassName(className)
               THEN /\ ret' = call @@ [error |-> "Invalid CSS class name"]
                    /\ UNCHANGED comps
               ELSE /\ comps' = [comps EXCEPT ![c] =
                          [classes |-> addClass(c, className[1])] @@ @]
                    /\ ret' = call @@ [success |-> TRUE,
                                       all_classes |-> addClass(c, className[1])]
            /\ UNCHANGED <<pages, selectedPage, wrapper, kids, parent, selected,
                           symbols>>
            /\ UNCHANGED <<brVars, rsVars, stVars, pgVars>>

\* the class names deleteSelector is called with
DeleteInputs == {<<"hero">>, <<"card">>}

\* c.removeClass(className)
removeClass(c, className) == Without(getClasses(c), className)

\* mutant: every rule loses its declarations
ClearedRules_All(className) == [key \in DOMAIN rules |-> EmptyStyle]

\* rules?.forEach(r => r.setStyle({})) over editor.Css.getRules('.' +
\* className): the rules of that selector lose their declarations
ClearedRules(className) ==
    [key \in DOMAIN rules |->
        IF key[1] = <<".">> \o className THEN EmptyStyle ELSE rules[key]]

\* deleteSelector(editor, className)
DeleteSelector ==
    \E className \in DeleteInputs :
        LET c == selected
            call == [op |-> "deleteSelector", class_name |-> className]
        IN  /\ IF c = NoComp
               THEN /\ ret' = call @@ [error |->
                         "No component selected. Use component(action:select) first."]
                    /\ UNCHANGED <<comps, rules>>
               ELSE /\ comps' = IF className[1] \in Range(getClasses(c))
                                THEN [comps EXCEPT ![c] =
                                        [classes |-> removeClass(c, className[1])]
                                            @@ @]
                                ELSE comps
                    /\ rules' = ClearedRules(className)
                    /\ ret' = call @@ [success |-> TRUE, removed |-> className,
                                       remaining_classes |->
                                           removeClass(c, className[1])]
            /\ UNCHANGED <<pages, selectedPage, wrapper, kids, parent, selected,
                           symbols, activeRule>>
            /\ UNCHANGED <<brVars, rsVars, pgVars>>

\* listComponentSelectors(editor); asApi tells whether the advanced
\* selector plugin is there.  componentSelector and matchingRules are what
\* the plugin answers and are left out of the result.
ListComponentSelectors ==
    \E asApi \in BOOLEAN :
        LET comp == selected
        IN  /\ ret' = IF ~asApi
                      THEN [op |-> "listComponentSelectors",
                            error |-> "Advanced selector plugin not available"]
                      ELSE IF comp = NoComp
                      THEN [op |-> "listComponentSelectors",
                            error |-> "No component selected"]
                      ELSE [op |-> "listComponentSelectors",
                            classes |-> getClasses(comp)]
            /\ UNCHANGED <<edVarsButRet, brVars, rsVars, stVars, pgVars>>

\* mutant: the selector string is passed on as submitted
CorrectSelector_Identity(selectorStr) ==
    [selector |-> selectorStr, corrected |-> FALSE]

\* the correction layer in front of the selector handlers: a selector
\* string without a leading . or # is turned into a class selector
CorrectSelector(selectorStr) ==
    IF selectorStr # << >> /\ selectorStr[1] \in {".", "#"}
    THEN [selector |-> selectorStr, corrected |-> FALSE]
    ELSE [selector |-> <<".">> \o selectorStr, corrected |-> TRUE]

\* the selector tool, action select: the correction, then selectSelector;
\* a correction is reported in the response
selectorSelect(selectorStr, asApi) ==
    LET fix == CorrectSelector(selectorStr)
        r == selectSelector(fix.selector, asApi)
    IN  IF fix.corrected
        THEN [r EXCEPT !.ret = [corrected_selector |-> fix.selector] @@ @]
        ELSE r

SelectorSelect ==
    \E selectorStr \in SelectorInputs, asApi \in BOOLEAN :
        LET r == selectorSelect(selectorStr, asApi)
        IN  /\ ret' = [op |-> "selector.select", arg |-> selectorStr] @@ r.ret
            /\ rules' = r.rules
            /\ activeRule' = r.activeRule
            /\ UNCHANGED <<pages, selectedPage, wrapper, comps, kids, parent,
                           selected, symbols>>
            /\ UNCHANGED <<brVars, rsVars, pgVars>>

-----------------------------------------------------------------------------
(* symbol: place, delete *)

\* the ways the search for label can go: without an exception, or with
\* the walk of a page it reaches throwing
Faults(label) ==
    {NoFault} \cup {pg \in Range(pages) : findSymbolByLabel(label, pg).threw}

\* s.label of every entry of findAllSymbols
RECURSIVE LabelsOf(_)
LabelsOf(all) ==
    IF all = << >> THEN << >> ELSE <<Head(all).label>> \o LabelsOf(Tail(all))

\* mutant: the index is not incremented for 'after'
PlaceIndex_NoIncrement(siblings, sel, position) ==
    IF IndexOf(siblings, sel) < 0 THEN 0 ELSE IndexOf(siblings, sel)

\* idx = parent.components().indexOf(sel); if (idx < 0) idx = 0;
\* if (position === 'after') idx++
PlaceIndex(siblings, sel, position) ==
    LET idx == IF IndexOf(siblings, sel) < 0 THEN 0 ELSE IndexOf(siblings, sel)
    IN  IF position = "after" THEN idx + 1 ELSE idx

\* parent.components().add(sym, opts) for a component that exists: it
\* joins the collection at index at unless it is in it already
AddExisting(siblings, sym, at) ==
    IF sym \in Range(siblings) THEN siblings
    ELSE InsertAt(siblings, IF at > Len(siblings) THEN Len(siblings) ELSE at,
                  <<sym>>)

\* symbols are placed while the document holds fewer child entries than this
MaxPlaced == 2

\* the number of child entries of the document
RECURSIVE CountKids(_)
CountKids(i) == IF i > Len(kids) THEN 0 ELSE Len(kids[i]) + CountKids(i + 1)

Placements == CountKids(1)

\* placeSymbol(editor, label, position).  A symbol placed under itself or
\* under one of its own descendants is left out: the tree would then hold
\* a cycle.
\* placeSymbol: the parent the symbol is added to
PlaceParent(position) ==
    IF selected = NoComp THEN getWrapper
    ELSE IF position = "inside" THEN selected
    ELSE IF parent[selected] # NoComp THEN parent[selected]
    ELSE getWrapper

\* placeSymbol: the index the symbol is added at, the end of the
\* collection when opts carries none
PlaceAt(position) ==
    IF selected = NoComp \/ position = "inside"
    THEN Len(kids[PlaceParent(position)])
    ELSE PlaceIndex(kids[PlaceParent(position)], selected, position)

PlaceSymbol ==
    \E label \in Labels, position \in Positions :
      \E fault \in Faults(label) :
        LET r == findSymbolByLabel(label, fault)
            sym == r.found
            call == [op |-> "placeSymbol", label |-> label, position |-> position]
            par == PlaceParent(position)
            at == PlaceAt(position)
        IN  /\ selectedPage' = r.page
            /\ IF r.threw
               THEN /\ ret' = call @@ [threw |-> TRUE]
                    /\ UNCHANGED <<kids, parent>>
               ELSE IF sym = NoComp
               THEN /\ ret' = call @@ [error |-> "Symbol not found",
                                       available |-> LabelsOf(findAllSymbols)]
                    /\ UNCHANGED <<kids, parent>>
               ELSE /\ par \notin Range(Walk(kids, <<sym>>))
                    /\ Placements < MaxPlaced
                    /\ kids' = [kids EXCEPT ![par] = AddExisting(@, sym, at)]
                    /\ parent' = IF parent[sym] = NoComp
                                 THEN [parent EXCEPT ![sym] = par]
                                 ELSE parent
                    /\ ret' = call @@ [success |-> TRUE]
            /\ UNCHANGED <<pages, wrapper, comps, selected, symbols>>
            /\ UNCHANGED <<brVars, rsVars, stVars, pgVars>>

\* sym.remove(): the component leaves the collection that holds it
Removed(sym) ==
    [kids |-> IF parent[sym] = NoComp THEN kids
              ELSE [kids EXCEPT ![parent[sym]] = Without(@, sym)],
     parent |-> [parent EXCEPT ![sym] = NoComp],
     symbols |-> IF parent[sym] = NoComp THEN Without(symbols, sym) ELSE symbols]

\* the command symbols:remove, when it does not throw: the master of the
\* symbol leaves the symbol list, the trees are not touched
SymbolsRemove(sym) ==
    SelectSeq(symbols,
              LAMBDA m : OrElse(comps[m], "symbolId", m)
                            # OrElse(comps[sym], "symbolId", sym))

\* deleteSymbol(editor, label); commandThrows tells whether the command
\* symbols:remove throws, keepSelection whether the editor keeps a removed
\* component selected
DeleteSymbol ==
    \E label \in Labels :
     \E fault \in Faults(label) :
      \E commandThrows \in
             IF findSymbolByLabel(label, fault).found = NoComp
             THEN {FALSE} ELSE BOOLEAN :
        \E keepSelection \in
               IF commandThrows
                  /\ selected \in Range(Walk(kids,
                         <<findSymbolByLabel(label, fault).found>>))
               THEN BOOLEAN ELSE {TRUE} :
        LET r == findSymbolByLabel(label, fault)
            sym == r.found
            call == [op |-> "deleteSymbol", label |-> label]
        IN  /\ selectedPage' = r.page
            /\ IF r.threw
               THEN /\ ret' = call @@ [threw |-> TRUE]
                    /\ UNCHANGED <<kids, parent, symbols, selected>>
               ELSE IF sym = NoComp
               THEN /\ ret' = call @@ [error |-> "Symbol not found"]
                    /\ UNCHANGED <<kids, parent, symbols, selected>>
               ELSE IF ~commandThrows
               THEN /\ symbols' = SymbolsRemove(sym)
                    /\ ret' = call @@ [success |-> TRUE, deleted |-> label,
                                       fallback |-> FALSE]
                    /\ UNCHANGED <<kids, parent, selected>>
               ELSE /\ kids' = Removed(sym).kids
                    /\ parent' = Removed(sym).parent
                    /\ symbols' = Removed(sym).symbols
                    /\ selected' = IF selected \in Range(Walk(kids, <<sym>>))
                                      /\ ~keepSelection
                                   THEN NoComp ELSE selected
                    /\ ret' = call @@ [success |-> TRUE, deleted |-> label,
                                       fallback |-> TRUE]
            /\ UNCHANGED <<pages, wrapper, comps>>
            /\ UNCHANGED <<brVars, rsVars, stVars, pgVars>>

-----------------------------------------------------------------------------
(* page: remove, update_settings; device: set *)

\* the name and slug arguments of addPage
PageNames == {"Blog"}
Slugs == {"about", "blog"}

\* editor.Pages.add({ name, id: slug }): a page of that id joins the
\* collection with a root component of its own; a collection that has a
\* page of that id answers with that page and stays as it is
PageAdded(name, slug) ==
    IF slug \in Range(pages)
    THEN [pages |-> pages, wrapper |-> wrapper, comps |-> comps,
          kids |-> kids, parent |-> parent, pageInfo |-> pageInfo]
    ELSE [pages |-> Append(pages, slug),
          wrapper |-> (slug :> NextId) @@ wrapper,
          comps |-> Append(comps, Wrapper),
          kids |-> Append(kids, << >>),
          parent |-> Append(parent, NoComp),
          pageInfo |-> (slug :> ([name |-> name] @@ NoPageInfo)) @@ pageInfo]

\* addPage(editor, name, slug)
AddPage ==
    \E name \in PageNames, slug \in Slugs :
        LET added == PageAdded(name, slug)
        IN  /\ slug \in Range(pages) \/ Len(comps) < MaxComps
            /\ pages' = added.pages
            /\ wrapper' = added.wrapper
            /\ comps' = added.comps
            /\ kids' = added.kids
            /\ parent' = added.parent
            /\ pageInfo' = added.pageInfo
            /\ selectedPage' = slug
            /\ ret' = [op |-> "addPage", name |-> name, slug |-> slug,
                       success |-> TRUE, id |-> slug,
                       page_name |-> OrElse(added.pageInfo[slug], "name", slug)]
            /\ UNCHANGED <<selected, symbols, device>>
            /\ UNCHANGED <<brVars, rsVars, stVars>>

\* editor.Pages.remove(pageId); stale tells whether the editor keeps a
\* removed page as the selected page or selects the first page left
RemovePage ==
    \E pageId \in PageIds, stale \in BOOLEAN :
        LET r == pageId \in Range(pages)
            left == Without(pages, pageId)
        IN  /\ pages' = left
            /\ selectedPage' = IF r /\ selectedPage = pageId
                                    /\ ~stale /\ left # << >>
                               THEN Head(left) ELSE selectedPage
            /\ ret' = [op |-> "removePage", page_id |-> pageId, success |-> r]
            /\ UNCHANGED <<wrapper, comps, kids, parent, selected, symbols>>
            /\ UNCHANGED <<brVars, rsVars, stVars, pgVars>>

\* the settings arguments drawn as inputs
SettingsInputs == {[name |-> "Start"], [title |-> "T"]}

\* const { name: _, ...seoSettings } = settings
SeoSettings(settings) == [k \in DOMAIN settings \ {"name"} |-> settings[k]]

\* updatePageSettings(editor, pageId, settings); pageId "" stands for a
\* call without a page id
UpdatePageSettings ==
    \E pageId \in PageIds \cup {"", "Start"}, settings \in SettingsInputs :
        LET p == IF pageId # "" THEN findPage(pageId) ELSE selectedPage
            call == [op |-> "updatePageSettings", page_id |-> pageId,
                     settings |-> settings]
            named == IF "name" \in DOMAIN settings
                     THEN [name |-> settings.name] @@ pageInfo[p]
                     ELSE pageInfo[p]
            merged == IF DOMAIN SeoSettings(settings) # {}
                      THEN [named EXCEPT !.settings = SeoSettings(settings) @@ @]
                      ELSE named
        IN  /\ IF p = NoPage
               THEN /\ ret' = call @@ [error |-> "Page not found"]
                    /\ UNCHANGED pageInfo
               ELSE /\ pageInfo' = [pageInfo EXCEPT ![p] = merged]
                    /\ ret' = call @@ [success |-> TRUE,
                                       name |-> OrElse(merged, "name", p),
                                       result |-> merged.settings]
            /\ UNCHANGED <<device, edVarsButRet>>
            /\ UNCHANGED <<brVars, rsVars, stVars>>

\* editor.Devices.getDevices()
Devices ==
    <<[id |-> "desktop", name |-> "Desktop"], [id |-> "tablet", name |-> "Tablet"]>>

DeviceInputs == {"Desktop", "tablet", "Phone"}

\* editor.Devices.get(name)
\*    ?? editor.Devices.getDevices().find(d => d.get('name') === name)
findDevice(name) ==
    LET byId == SelectSeq(Devices, LAMBDA d : d.id = name)
        byName == SelectSeq(Devices, LAMBDA d : d.name = name)
    IN  byId \o byName

RECURSIVE NamesOf(_)
NamesOf(devs) ==
    IF devs = << >> THEN << >> ELSE <<Head(devs).name>> \o NamesOf(Tail(devs))

SetDevice ==
    \E name \in DeviceInputs :
        LET dev == findDevice(name)
            call == [op |-> "setDevice", name |-> name]
        IN  /\ IF dev = << >>
               THEN /\ ret' = call @@ [error |-> "Device not found",
                                       available |-> NamesOf(Devices)]
                    /\ UNCHANGED device
               ELSE /\ device' = dev[1].id
                    /\ ret' = call @@ [success |-> TRUE, device |-> dev[1].name]
            /\ UNCHANGED <<pageInfo, edVarsButRet>>
            /\ UNCHANGED <<brVars, rsVars, stVars>>

-----------------------------------------------------------------------------
(* The Electron shell: the main window *)

\* the windows the shell is let make
MaxWindows == 6

Platforms == {"darwin", "linux"}

InitShell ==
    /\ \E platform \in Platforms :
           shell = [ShellParked EXCEPT !.platform = platform]
    /\ bridge = [script |-> "", page |-> ""]
    /\ menu = << >>
    /\ EditorParked
    /\ ResolverParked

\* createWindow(): setTimeout(() => {...}, 10000), one more timer pending
createWindow(sh) == [sh EXCEPT !.timers = @ + 1]

\* app.on('ready', createWindow)
Ready ==
    /\ ~shell.ready
    /\ shell' = [createWindow(shell) EXCEPT !.ready = TRUE]
    /\ UNCHANGED <<bridge, menu, rsVars, edVars, stVars, pgVars>>

\* the timer of createWindow fires: win = new BrowserWindow(...)
TimerFires ==
    /\ shell.timers > 0
    /\ ~shell.quit
    /\ shell' = [shell EXCEPT !.timers = @ - 1,
                              !.made = @ + 1,
                              !.win = shell.made + 1,
                              !.open = @ \cup {shell.made + 1}]
    /\ UNCHANGED <<bridge, menu, rsVars, edVars, stVars, pgVars>>

\* a window is closed: its 'closed' listener sets win = null; with the
\* last window gone 'window-all-closed' quits, except on macOS
WindowClosed ==
    \E w \in shell.open :
        /\ shell' = [shell EXCEPT !.open = @ \ {w},
                                  !.win = Null,
                                  !.quit = shell.open = {w}
                                           /\ shell.platform # "darwin"]
        /\ UNCHANGED <<bridge, menu, rsVars, edVars, stVars, pgVars>>

\* mutant: activate makes a window whatever win is
ShouldCreate_Always(sh) == TRUE

\* app.on('activate'): if (win === null)
ShouldCreate(sh) == sh.win = Null

\* the dock icon is clicked (macOS): 'activate'
Activate ==
    /\ shell.ready
    /\ ~shell.quit
    /\ shell.platform = "darwin"
    /\ shell.made + shell.timers < MaxWindows
    /\ shell' = IF ShouldCreate(shell) THEN createWindow(shell) ELSE shell
    /\ UNCHANGED <<bridge, menu, rsVars, edVars, stVars, pgVars>>

NextShell ==
    \/ Ready
    \/ TimerFires
    \/ WindowClosed
    \/ Activate

SpecShell == InitShell /\ [][NextShell]_vars

-----------------------------------------------------------------------------
(* The bridge script: waiting for the editor, menu events *)

\* the number of polls and of menu events followed
MaxTicks == 2
MaxEvents == 2

\* the two texts of the bridge script: scripts/desktop-bridge.js, and the
\* bridge that also carries the editor helpers
Scripts == {"desktop-bridge.js", "bridge"}

MenuEvents == {"menu-save", "menu-undo", "menu-redo", "menu-close-project"}

\* what the listener of a menu event does
MenuAction(event) ==
    CASE event = "menu-save" -> "editor.store()"
      [] event = "menu-undo" -> "editor.UndoManager.undo()"
      [] event = "menu-redo" -> "editor.UndoManager.redo()"
      [] event = "menu-close-project" -> "window.location.href = '/'"

\* the events the callback of waitForEditor registers a listener for
Listeners(script) ==
    IF script = "desktop-bridge.js" THEN {"menu-save"} ELSE MenuEvents

\* the pathnames the pages of the application are served under: the
\* dashboard and the editor at "/", the former welcome page, and the
\* index.html the shell loads
Paths == {"/", "/welcome", "/index.html"}

\* whether the script invokes clear_current_project when it starts
ClearsProject(script, path, hasId) ==
    IF script = "desktop-bridge.js"
    THEN path \in {"/", "/welcome"}
    ELSE ~hasId

\* the script starting on a page: clear_current_project where it applies,
\* and, with a website id in the URL, waitForEditor sets its interval
Load(script, path, hasId) ==
    [script |-> script, path |-> path,
     page |-> IF hasId THEN "editor" ELSE "dashboard",
     cleared |-> ClearsProject(script, path, hasId),
     editorUp |-> FALSE, polling |-> hasId, ticks |-> 0, lookup |-> "",
     called |-> 0, threw |-> FALSE, listening |-> {},
     fetch |-> "", sets |-> 0, project |-> "",
     tracking |-> FALSE, unsaved |-> FALSE]

\* the script starting on the editor page (?id=...)
OnEditorPage(script, path) == Load(script, path, TRUE)

\* the script starting on the dashboard, window.location.href = '/'
OnDashboard(script) == Load(script, "/", FALSE)

\* whether the callback of waitForEditor has run on this page
Wired == bridge.page = "editor" /\ bridge.editorUp /\ ~bridge.polling

InitBridge ==
    /\ \E script \in Scripts, path \in Paths, hasId \in BOOLEAN :
           bridge = Load(script, path, hasId)
    /\ menu = << >>
    /\ shell = ShellParked
    /\ EditorParked
    /\ ResolverParked

\* the editor application finishes loading: window.silex.getEditor()
\* returns the editor from now on
EditorLoads ==
    /\ bridge.page = "editor"
    /\ ~bridge.editorUp
    /\ bridge' = [bridge EXCEPT !.editorUp = TRUE]
    /\ UNCHANGED <<menu, shell, rsVars, edVars, stVars, pgVars>>

\* the number of steps the callback of waitForEditor takes: the fetch of
\* the metadata, editor.on, the listeners
CallbackSteps == 3

\* mutant: the interval keeps running after the callback
StillPolling_Kept(found) == TRUE

\* whether the interval is still set after a run that found an editor or
\* not: clearInterval(interval)
StillPolling(found) == ~found

\* the count of runs of the interval callback, kept up to MaxTicks
Ticked(n) == IF n < MaxTicks THEN n + 1 ELSE n

\* one run of the interval callback of waitForEditor: without an editor, or
\* when the lookup throws, nothing happens; with an editor the interval is
\* cleared and the callback runs, fetching the metadata of the project,
\* tracking changes and registering the menu listeners; what the callback
\* throws after done steps is caught
Poll ==
    /\ bridge.polling
    /\ \/ /\ bridge.editorUp
          /\ \E done \in 1..CallbackSteps :
                 bridge' = [bridge EXCEPT !.polling = StillPolling(TRUE),
                                          !.ticks = Ticked(@),
                                          !.lookup = "editor",
                                          !.called = @ + 1,
                                          !.threw = done < CallbackSteps,
                                          !.fetch = "pending",
                                          !.tracking = done >= 2,
                                          !.listening =
                                              IF done = CallbackSteps
                                              THEN Listeners(bridge.script)
                                              ELSE {}]
       \/ /\ ~bridge.editorUp
          /\ \E lookup \in {"absent", "throws"} :
                 bridge' = [bridge EXCEPT !.polling = StillPolling(FALSE),
                                          !.ticks = Ticked(@),
                                          !.lookup = lookup]
    /\ UNCHANGED <<menu, shell, rsVars, edVars, stVars, pgVars>>

\* the name set_current_project is given: meta.name || websiteId in
\* desktop-bridge.js, meta.name ?? websiteId in the bridge, websiteId when
\* the fetch failed
WebsiteName(script, outcome) ==
    CASE outcome = "named" -> "name"
      [] outcome = "empty" -> IF script = "desktop-bridge.js" THEN "id" ELSE ""
      [] outcome = "unnamed" -> "id"
      [] outcome = "failed" -> "id"

\* the fetch of the metadata settles: set_current_project is invoked
FetchSettles ==
    /\ bridge.fetch = "pending"
    /\ \E outcome \in {"named", "empty", "unnamed", "failed"} :
           bridge' = [bridge EXCEPT !.fetch = outcome,
                                    !.sets = @ + 1,
                                    !.project =
                                        WebsiteName(bridge.script, outcome)]
    /\ UNCHANGED <<menu, shell, rsVars, edVars, stVars, pgVars>>

\* the editor emits change:changesCount: mark_unsaved is invoked when the
\* callback has subscribed to it
EditorChanges ==
    /\ bridge.page = "editor"
    /\ bridge.editorUp
    /\ bridge' = [bridge EXCEPT !.unsaved = @ \/ bridge.tracking]
    /\ UNCHANGED <<menu, shell, rsVars, edVars, stVars, pgVars>>

\* the host emits a menu event: the listener registered for it runs, if
\* there is one; closing the project loads the dashboard
MenuEvent ==
    \E event \in MenuEvents :
        LET heard == event \in bridge.listening
        IN  /\ Len(menu) < MaxEvents
            /\ menu' = Append(menu, [event |-> event, wired |-> Wired,
                                     action |-> IF heard THEN MenuAction(event)
                                                ELSE "none"])
            /\ bridge' = IF heard /\ event = "menu-close-project"
                         THEN OnDashboard(bridge.script)
                         ELSE bridge
            /\ UNCHANGED <<shell, rsVars, edVars, stVars, pgVars>>

\* a project is opened from the dashboard: the editor page loads
OpenProject ==
    /\ bridge.page = "dashboard"
    /\ \E path \in Paths : bridge' = OnEditorPage(bridge.script, path)
    /\ UNCHANGED <<menu, shell, rsVars, edVars, stVars, pgVars>>

NextBridge ==
    \/ EditorLoads
    \/ Poll
    \/ FetchSettles
    \/ EditorChanges
    \/ MenuEvent
    \/ OpenProject

SpecBridge == InitBridge /\ [][NextBridge]_vars

\* the page without the menu: the interval fires every 300 ms for as long
\* as it is set
NextWait ==
    \/ EditorLoads
    \/ Poll
    \/ FetchSettles
    \/ EditorChanges

SpecWait == InitBridge /\ [][NextWait]_vars /\ WF_vars(Poll)

-----------------------------------------------------------------------------
(* The editor's specification *)

Init ==
    /\ \E site \in Sites :
          /\ pages = site.pages
          /\ wrapper = site.wrapper
          /\ comps = site.comps
          /\ kids = site.kids
          /\ parent = site.parent
          /\ symbols = site.symbols
          /\ selectedPage = site.pages[1]
    /\ selected = NoComp
    /\ ret = [op |-> "none"]
    /\ rules = << >>
    /\ activeRule = NoRule
    /\ device = "desktop"
    /\ pageInfo = [pg \in Range(pages) |-> NoPageInfo]
    /\ ResolverParked
    /\ BridgeParked

Next ==
    \/ AddComponent
    \/ SelectComponent
    \/ SelectPage
    \/ FindSymbolByLabel
    \/ FindAllSymbols

Spec == Init /\ [][Next]_vars

\* the style handlers, on a page holding one component of class hero
StyledSite ==
    [pages |-> <<"home">>,
     wrapper |-> [pg \in {"home"} |-> 1],
     comps |-> <<Wrapper,
                 [tag |-> "div", type |-> "default", editable |-> FALSE,
                  style |-> EmptyStyle, classes |-> <<"hero">>]>>,
     kids |-> << <<2>>, << >> >>,
     parent |-> <<NoComp, 1>>,
     symbols |-> << >>]

InitStyle ==
    /\ pages = StyledSite.pages
    /\ wrapper = StyledSite.wrapper
    /\ comps = StyledSite.comps
    /\ kids = StyledSite.kids
    /\ parent = StyledSite.parent
    /\ symbols = StyledSite.symbols
    /\ selectedPage = "home"
    /\ selected = NoComp
    /\ ret = [op |-> "none"]
    /\ rules = << >>
    /\ activeRule = NoRule
    /\ device = "desktop"
    /\ pageInfo = [pg \in Range(pages) |-> NoPageInfo]
    /\ ResolverParked
    /\ BridgeParked

NextStyle ==
    \/ SelectComponent
    \/ CreateSelector
    \/ SelectSelector
    \/ SelectorSelect
    \/ GetStyle
    \/ SetStyle
    \/ DeleteStyleProperty

SpecStyle == InitStyle /\ [][NextStyle]_vars

\* the selector handlers, on a site whose class already has a rule
InitSelector ==
    /\ pages = StyledSite.pages
    /\ wrapper = StyledSite.wrapper
    /\ comps = StyledSite.comps
    /\ kids = StyledSite.kids
    /\ parent = StyledSite.parent
    /\ symbols = StyledSite.symbols
    /\ selectedPage = "home"
    /\ selected = NoComp
    /\ ret = [op |-> "none"]
    /\ rules = (<< <<".", "hero">>, "desktop" >> :> [color |-> "red"])
                   @@ (<< <<".", "card">>, "desktop" >> :> [margin |-> "0"])
    /\ activeRule = NoRule
    /\ device = "desktop"
    /\ pageInfo = [pg \in Range(pages) |-> NoPageInfo]
    /\ ResolverParked
    /\ BridgeParked

NextSelector ==
    \/ SelectComponent
    \/ CreateSelector
    \/ SelectSelector
    \/ DeleteSelector
    \/ ListComponentSelectors

SpecSelector == InitSelector /\ [][NextSelector]_vars

\* the style writes over the breakpoints, on a site that has a rule for
\* the class of its component and a rule for another class
InitRules ==
    /\ pages = StyledSite.pages
    /\ wrapper = StyledSite.wrapper
    /\ comps = StyledSite.comps
    /\ kids = StyledSite.kids
    /\ parent = StyledSite.parent
    /\ symbols = StyledSite.symbols
    /\ selectedPage = "home"
    /\ selected = NoComp
    /\ ret = [op |-> "none"]
    /\ rules = (<< <<".", "hero">>, "desktop" >> :> [color |-> "red"])
                  @@ (<< <<".", "card">>, "desktop" >> :> [margin |-> "0"])
    /\ activeRule = NoRule
    /\ device = "desktop"
    /\ pageInfo = [pg \in Range(pages) |-> NoPageInfo]
    /\ ResolverParked
    /\ BridgeParked

NextRules ==
    \/ SelectComponent
    \/ SelectSelector
    \/ SetDevice
    \/ SetStyle

SpecRules == InitRules /\ [][NextRules]_vars


-----------------------------------------------------------------------------
(* Claims about the editor handlers, checked under Spec *)

Succeeded(r) == "success" \in DOMAIN r

\* C1, as stated: findSymbolByLabel and findAllSymbols leave the selected
\* page as it was when the call began, on every exit path, the one where
\* the walk of a page throws included.
C1_SelectedPageRestored ==
    [][ret'.op \in {"findSymbolByLabel", "findAllSymbols"}
          => selectedPage' = selectedPage]_vars

\* the siblings that were there before the call, in their order after it
OldSiblings(after, created) ==
    SelectSeq(after, LAMBDA c : c \notin Range(created))

\* the created components sit at consecutive indices of siblings, from at on
PlacedFrom(siblings, created, at) ==
    \A j \in 1..Len(created) : IndexOf(siblings, created[j]) = at + j - 1

\* C9: a successful addComponent inserts the created components, with S
\* the selected component and P its parent, at S's prior index + 1 in P
\* for 'after', at S's prior index in P for 'before' (S moving behind
\* them), as the last children of S for 'inside', and as the last children
\* of the root without a selection; the siblings that were there keep
\* their order and no other child sequence changes.
C9_InsertPosition ==
    [][(ret'.op = "addComponent" /\ Succeeded(ret')) =>
        LET sel == selected
            created == ret'.component_ids
            pos == ret'.position
            par == IF sel = NoComp THEN getWrapper
                 ELSE IF pos = "inside" THEN sel ELSE parent[sel]
        IN  /\ par # NoComp
            /\ (sel # NoComp /\ pos = "after") =>
                  PlacedFrom(kids'[par], created, IndexOf(kids[par], sel) + 1)
            /\ (sel # NoComp /\ pos = "before") =>
                  /\ PlacedFrom(kids'[par], created, IndexOf(kids[par], sel))
                  /\ IndexOf(kids'[par], sel) = IndexOf(kids[par], sel) + Len(created)
            /\ (sel = NoComp \/ pos = "inside") =>
                  kids'[par] = kids[par] \o created
            /\ OldSiblings(kids'[par], created) = kids[par]
            /\ \A c \in DOMAIN kids : c # par => kids'[c] = kids[c]
            /\ \A j \in 1..Len(created) : parent'[created[j]] = par
    ]_vars

\* a component was added before a selected component that had a sibling in
\* front of it: the created one has a sibling on each side
C9_Witness ==
    /\ ret.op = "addComponent" /\ Succeeded(ret) /\ ret.position = "before"
    /\ ret.component_ids # << >>
    /\ LET c == ret.component_ids[1]
           siblings == kids[parent[c]]
       IN  /\ IndexOf(siblings, c) > 0
           /\ IndexOf(siblings, c) < Len(siblings) - 1

\* the elements of parsed markup in document order
RECURSIVE Elements(_)
Elements(forest) ==
    IF forest = << >> THEN << >>
    ELSE <<Head(forest)>> \o Elements(Head(forest).components)
            \o Elements(Tail(forest))

\* the components created by the last addComponent, in document order
Created == Walk(kids, ret.component_ids)

\* C10: after a successful addComponent every created component, at every
\* depth, has an empty style map, and the warnings hold exactly one entry
\* for each created component whose element carried an inline style.
C10_StylesStripped ==
    (ret.op = "addComponent" /\ Succeeded(ret)) =>
        LET elements == Elements(ret.html)
            styled == {i \in 1..Len(elements) : DOMAIN elements[i].style # {}}
        IN  /\ Len(Created) = Len(elements)
            /\ \A i \in 1..Len(Created) :
                  /\ comps[Created[i]].tag = elements[i].tag
                  /\ DOMAIN comps[Created[i]].style = {}
            /\ {ret.warnings[w].id : w \in 1..Len(ret.warnings)}
                  = {Created[i] : i \in styled}
            /\ Len(ret.warnings) = Cardinality(styled)

\* markup whose nested element carries an inline style was added
C10_Witness ==
    /\ ret.op = "addComponent" /\ Succeeded(ret)
    /\ \E w \in 1..Len(ret.warnings) :
          parent[ret.warnings[w].id] \in Range(ret.component_ids)

\* the components created by the call a step makes, in document order
CreatedNow == Walk(kids', ret'.component_ids)

\* C11: after a successful addComponent every created component, top-level
\* or nested, whose tag is a text-bearing tag has type text and is
\* editable, and every other created component keeps the type its element
\* was parsed with; adding <h1>Hello</h1> to an empty tree without a
\* selection creates exactly one component, a child of the root, of type
\* text, editable, with an empty style map.
C11_TextTagsEditable ==
    [][(ret'.op = "addComponent" /\ Succeeded(ret')) =>
        LET elements == Elements(ret'.html)
        IN  /\ Len(CreatedNow) = Len(elements)
            /\ \A i \in 1..Len(CreatedNow) :
                  LET c == comps'[CreatedNow[i]]
                  IN  IF elements[i].tag \in
                            {"p", "h1", "h2", "h3", "h4", "h5", "h6", "span",
                             "a", "li", "td", "th", "label", "blockquote"}
                      THEN c.type = "text" /\ c.editable
                      ELSE c.type = elements[i].type
            /\ (ret'.html = HtmlHello /\ selected = NoComp
                    /\ kids[getWrapper] = << >>) =>
                  /\ Len(CreatedNow) = 1
                  /\ kids'[getWrapper] = CreatedNow
                  /\ comps'[CreatedNow[1]].type = "text"
                  /\ comps'[CreatedNow[1]].editable
                  /\ DOMAIN comps'[CreatedNow[1]].style = {}
    ]_vars

\* markup with a text-bearing element nested in an element of another tag
\* was added
C11_Witness ==
    /\ ret.op = "addComponent" /\ Succeeded(ret)
    /\ \E c \in Range(Created) :
          /\ comps[c].tag = "span" /\ comps[c].type = "text"
          /\ parent[c] \in Range(ret.component_ids)
          /\ comps[parent[c]].type = "default"

BuiltSite ==
    [pages |-> <<"home">>,
     wrapper |-> [pg \in {"home"} |-> 1],
     comps |-> <<Wrapper,
                 [tag |-> "section", type |-> "default", editable |-> FALSE,
                  style |-> EmptyStyle],
                 [tag |-> "h1", type |-> "text", editable |-> TRUE,
                  style |-> EmptyStyle],
                 [tag |-> "p", type |-> "text", editable |-> TRUE,
                  style |-> EmptyStyle]>>,
     kids |-> << <<2, 4>>, <<3>>, << >>, << >> >>,
     parent |-> <<NoComp, 1, 2, 1>>,
     symbols |-> << >>]

InitSite(site) ==
    /\ pages = site.pages
    /\ wrapper = site.wrapper
    /\ comps = site.comps
    /\ kids = site.kids
    /\ parent = site.parent
    /\ symbols = site.symbols
    /\ selectedPage = "home"
    /\ selected = NoComp
    /\ ret = [op |-> "none"]
    /\ rules = << >>
    /\ activeRule = NoRule
    /\ device = "desktop"
    /\ pageInfo = [pg \in Range(pages) |-> NoPageInfo]
    /\ ResolverParked
    /\ BridgeParked

\* the component handlers, on a site already built
InitTree == InitSite(BuiltSite)

NextTree ==
    \/ SelectComponent
    \/ GetComponent
    \/ MoveComponent
    \/ RemoveComponent

SpecTree == InitTree /\ [][NextTree]_vars

\* the handlers that rewrite the selected component
InitEdit == InitSite(StyledSite)

NextEdit ==
    \/ SelectComponent
    \/ UpdateComponent
    \/ CreateSymbol

SpecEdit == InitEdit /\ [][NextEdit]_vars

\* reading the tree of a site under construction
InitRead == InitSite(NewSite)

NextRead ==
    \/ AddComponent
    \/ SelectComponent
    \/ GetTree

SpecRead == InitRead /\ [][NextRead]_vars

\* the symbol handlers, with the selections they depend on
NextSite ==
    \/ SelectComponent
    \/ SelectPage
    \/ PlaceSymbol
    \/ DeleteSymbol

SpecSite == Init /\ [][NextSite]_vars

\* the page and device handlers
NextPages ==
    \/ SelectPage
    \/ RemovePage
    \/ UpdatePageSettings
    \/ SetDevice

SpecPages == Init /\ [][NextPages]_vars

\* the symbol searches, with the selections they start from
InitSearch == \E site \in {SiteWithSymbols, SiteWithCopies} : InitSite(site)

NextSearch ==
    \/ SelectPage
    \/ SelectComponent
    \/ FindSymbolByLabel
    \/ FindAllSymbols

SpecSearch == InitSearch /\ [][NextSearch]_vars

\* the operations that move the selected page
NextSession ==
    \/ SelectPage
    \/ AddPage
    \/ RemovePage
    \/ FindSymbolByLabel

SpecSession == Init /\ [][NextSession]_vars

-----------------------------------------------------------------------------
(* Claims about the style and selector handlers, checked under SpecStyle *)

\* the pairs of a batch the browser accepts, and those it rejects
ValidPairs(props) ==
    SelectSeq(props, LAMBDA e : BrowserAccepts(e.property, e.value))

InvalidPairs(props) ==
    SelectSeq(props, LAMBDA e : ~BrowserAccepts(e.property, e.value))

\* C13, as stated: a setStyle on an active rule with a batch holding an
\* invalid pair fails, leaves every declaration map unchanged, and its
\* error carries both the valid and the invalid pairs of the batch.
C13_BatchRejectedWithPartition ==
    [][(ret'.op = "setStyle" /\ activeRule # NoRule
            /\ InvalidPairs(ret'.props) # << >>) =>
        /\ "error" \in DOMAIN ret'
        /\ rules' = rules
        /\ "invalid" \in DOMAIN ret'
        /\ ret'.invalid = InvalidPairs(ret'.props)
        /\ "valid" \in DOMAIN ret'
        /\ ret'.valid = ValidPairs(ret'.props)
    ]_vars

\* C14: a setStyle that succeeds, made again with the same batch on the
\* same active rule, succeeds again and leaves every declaration map as the
\* first call left it.
C14_SetStyleIdempotent ==
    [][(/\ ret.op = "setStyle" /\ Succeeded(ret)
        /\ ret'.op = "setStyle" /\ ret'.props = ret.props) =>
        /\ Succeeded(ret')
        /\ rules' = rules
        /\ ret'.resulting_style = ret.resulting_style
    ]_vars

\* a batch was applied that overrode a declaration's neighbour: the rule
\* holds the batch's pair and a pair of an earlier batch
C14_Witness ==
    /\ ret.op = "setStyle" /\ Succeeded(ret)
    /\ Len(ret.props) = 1
    /\ activeRule # NoRule
    /\ Cardinality(DOMAIN rules[activeRule]) = 2
    /\ rules[activeRule][ret.props[1].property] = ret.props[1].value

\* C15: getStyle, setStyle and deleteStyleProperty called while no rule is
\* active return the error that names the selector to activate first, and
\* leave the rules and the (absent) active rule as they were: no rule is
\* created and none is modified.
C15_NoActiveRule ==
    [][(activeRule = NoRule
            /\ ret'.op \in {"getStyle", "setStyle", "deleteStyleProperty"}) =>
        /\ "error" \in DOMAIN ret'
        /\ ret'.error = NoSelectorActive
        /\ rules' = rules
        /\ activeRule' = NoRule
    ]_vars

\* setStyle was called with a batch the browser accepts while no rule was
\* active
C15_Witness ==
    /\ ret.op = "setStyle"
    /\ "error" \in DOMAIN ret /\ ret.error = NoSelectorActive
    /\ ret.props # << >> /\ InvalidPairs(ret.props) = << >>
    /\ activeRule = NoRule

\* C16: deleteStyleProperty(name) on an active rule succeeds; the rule then
\* holds the declarations it held, except name; when name was not in the
\* rule its map is unchanged; no other rule changes.
C16_DeleteOneProperty ==
    [][(ret'.op = "deleteStyleProperty" /\ activeRule # NoRule) =>
        LET old == rules[activeRule]
            new == rules'[activeRule]
            name == ret'.property
        IN  /\ Succeeded(ret')
            /\ DOMAIN rules' = DOMAIN rules
            /\ DOMAIN new = DOMAIN old \ {name}
            /\ \A pr \in DOMAIN new : new[pr] = old[pr]
            /\ name \notin DOMAIN old => rules' = rules
            /\ \A r \in DOMAIN rules : r # activeRule => rules'[r] = rules[r]
    ]_vars

\* a property was deleted from a rule that keeps another declaration,
\* while a second rule holds declarations
C16_Witness ==
    /\ ret.op = "deleteStyleProperty" /\ Succeeded(ret)
    /\ ret.property = "color"
    /\ DOMAIN rules[activeRule] = {"margin"}
    /\ \E r \in DOMAIN rules : r # activeRule /\ "color" \in DOMAIN rules[r]

\* a response without the note of a correction
Uncorrected(r) == [k \in DOMAIN r \ {"corrected_selector"} |-> r[k]]

-----------------------------------------------------------------------------
(* Claims about the symbol, page and device handlers *)

\* C18, as stated: a successful placeSymbol with position 'after' while no
\* component is selected leaves the symbol as the first child of the root
\* of the selected page, whatever children the root had.
C18_PlacedAsFirstChild ==
    [][(ret'.op = "placeSymbol" /\ Succeeded(ret')
            /\ ret'.position = "after" /\ selected = NoComp) =>
        /\ kids'[getWrapper] # << >>
        /\ TreeLabel(comps[kids'[getWrapper][1]]) = ret'.label
    ]_vars

\* C19, as stated: a successful deleteSymbol leaves no master with the
\* label in the symbol list and leaves every child sequence of every tree
\* as it was, whether the symbol was found among the orphaned masters or by
\* the search through the pages.
C19_PlacementsKept ==
    [][(ret'.op = "deleteSymbol" /\ Succeeded(ret')) =>
        /\ kids' = kids
        /\ \A m \in Range(symbols') : TreeLabel(comps[m]) # ret'.label
    ]_vars

\* a response that tells a page, a device or a symbol was not found
NotFound(r) ==
    \/ /\ "error" \in DOMAIN r
       /\ r.error \in {"Page not found", "Device not found", "Symbol not found"}
    \/ r.op = "removePage" /\ ~r.success

\* C20, as stated: every not-found response of selectPage, removePage,
\* updatePageSettings, setDevice, placeSymbol and deleteSymbol carries the
\* list of the available alternatives.
C20_NotFoundListsAvailable ==
    NotFound(ret) => "available" \in DOMAIN ret

-----------------------------------------------------------------------------
(* The component handlers *)

\* the nodes of a returned tree in the order they are written, each with
\* its depth
RECURSIVE Listed(_, _)
RECURSIVE ListedAll(_, _)
Listed(node, d) ==
    <<[id |-> node.id, depth |-> d, node |-> node]>>
        \o ListedAll(node.children, d + 1)

ListedAll(nodes, d) ==
    IF nodes = << >> THEN << >>
    ELSE Listed(Head(nodes), d) \o ListedAll(Tail(nodes), d)

\* the nodes of the tree the last get_tree call returned
TreeNodes == IF ret.tree = << >> THEN << >> ELSE Listed(ret.tree, 0)

\* whether the elements of short appear in long in the same order
RECURSIVE IsSubSeq(_, _)
IsSubSeq(short, long) ==
    IF short = << >> THEN TRUE
    ELSE IF long = << >> THEN FALSE
    ELSE IF Head(short) = Head(long) THEN IsSubSeq(Tail(short), Tail(long))
    ELSE IsSubSeq(short, Tail(long))

\* whether a returned node shows fewer children than the component has
Truncated(n) == Len(n.node.children) < Len(kids[n.id])

\* C22: get_tree returns at most maxCount nodes, none deeper than maxDepth,
\* in depth-first order from the root, and every returned node that does
\* not show all its children carries children_count, the number of
\* children the component has.
C22_TreeBoundedAndCounted ==
    ret.op = "getTree" =>
        /\ Len(TreeNodes) <= ret.max_count
        /\ \A i \in DOMAIN TreeNodes : TreeNodes[i].depth <= ret.max_depth
        /\ IsSubSeq([i \in DOMAIN TreeNodes |-> TreeNodes[i].id],
                    Walk(kids, <<getWrapper>>))
        /\ \A i \in DOMAIN TreeNodes :
               Truncated(TreeNodes[i]) =>
                   /\ "children_count" \in DOMAIN TreeNodes[i].node
                   /\ TreeNodes[i].node.children_count
                          = Len(kids[TreeNodes[i].id])


\* the handlers that need a selected component, and those that need an
\* active style rule
ComponentHandlers ==
    {"getComponent", "updateComponent", "moveComponent", "removeComponent",
     "selectSelector", "createSelector", "deleteSelector",
     "listComponentSelectors", "createSymbol"}

StyleHandlers == {"getStyle", "setStyle", "deleteStyleProperty"}

\* the call an error message tells the caller to make first, "" when the
\* message names none
PrerequisiteCall(msg) ==
    CASE msg = NoComponentSelected ->
             "component(action:select, component_id:...)"
      [] msg = NoComponentToMove ->
             "component(action:select, component_id:...)"
      [] msg = "No component selected. Use component(action:select) first." ->
             "component(action:select)"
      [] msg = "No component selected. Select a component first with component(action:select)." ->
             "component(action:select)"
      [] msg = NoSelectorActive ->
             "selector(action:select, selector:.classname)"
      [] OTHER -> ""

\* whether the last call failed for want of a selected component
FailedUnselected ==
    /\ ret.op \in ComponentHandlers
    /\ "error" \in DOMAIN ret
    /\ selected = NoComp
    /\ ret.error # "Advanced selector plugin not available"

\* whether the last call failed for want of an active style rule
FailedNoRule ==
    /\ ret.op \in StyleHandlers
    /\ "error" \in DOMAIN ret
    /\ RuleMissing(activeRule)

\* C21: a handler that fails because nothing is selected returns a message
\* naming the call to make first: component(action:select...) when a
\* component is missing, selector(action:select...) when a style rule is.
C21_ErrorNamesPrerequisite ==
    /\ FailedUnselected =>
           PrerequisiteCall(ret.error)
               \in {"component(action:select, component_id:...)",
                    "component(action:select)"}
    /\ FailedNoRule =>
           PrerequisiteCall(ret.error)
               = "selector(action:select, selector:.classname)"

\* whether a call came back as an error: the handler returned one, or it
\* threw and the caller was handed the exception as an error
Failed(r) ==
    \/ "error" \in DOMAIN r
    \/ "threw" \in DOMAIN r /\ r.threw

\* C23: a call that returns an error leaves the component tree, the
\* selected component, the selected page, the selected device and the style
\* rules as they were before the call.
C23_FailedCallChangesNothing ==
    [][Failed(ret') =>
          UNCHANGED <<comps, kids, parent, selected, selectedPage, device,
                      rules>>]_vars

\* the last call was moveComponent, made with a component selected and the
\* id of a component of the tree
MoveCalled ==
    /\ ret'.op = "moveComponent"
    /\ selected # NoComp
    /\ findComponent(ret'.target_id) # NoComp

\* where moveComponent has to leave the selected component C for the
\* target and position of the call, C keeping its children and the other
\* components their parent and their children
MovedTo(target, position) ==
    LET C == selected
    IN  /\ "success" \in DOMAIN ret'
        /\ CASE position = "inside" ->
                    /\ parent'[C] = target
                    /\ kids'[target] # << >>
                    /\ kids'[target][Len(kids'[target])] = C
             [] position = "after" ->
                    /\ parent'[C] = parent[target]
                    /\ IndexOf(kids'[parent[target]], C)
                           = IndexOf(kids'[parent[target]], target) + 1
             [] position = "before" ->
                    /\ parent'[C] = parent[target]
                    /\ IndexOf(kids'[parent[target]], C)
                           = IndexOf(kids'[parent[target]], target) - 1
        /\ \A x \in DOMAIN kids : Without(kids'[x], C) = Without(kids[x], C)
        /\ \A x \in DOMAIN parent : x # C => parent'[x] = parent[x]

SiblingTarget(target) == target # selected /\ parent[target] # NoComp

RECURSIVE Reach(_)
Reach(set) ==
    LET more == set \cup UNION {Range(kids[x]) : x \in set}
    IN  IF more = set THEN set ELSE Reach(more)

\* a component and its descendants
Subtree(c) == Reach({c})

\* seq without the elements of set
Outside(seq, set) == SelectSeq(seq, LAMBDA x : x \notin set)

\* C25: after a removeComponent that succeeds, the removed component and
\* its descendants are not found by id in the tree, and every other
\* component keeps its parent and its order among its remaining siblings.
C25_RemovedNotFound ==
    [][ret'.op = "removeComponent" /\ "success" \in DOMAIN ret' =>
          LET gone == Subtree(selected)
          IN  /\ \A x \in gone :
                     x \notin Range(Walk(kids', <<wrapper'[selectedPage']>>))
              /\ \A x \in DOMAIN parent :
                     x \notin gone => parent'[x] = parent[x]
              /\ \A x \in DOMAIN kids :
                     x \notin gone =>
                         Outside(kids'[x], gone) = Outside(kids[x], gone)]_vars

\* whether a component of that id is in the tree of the page
InTree(id) == id \in Range(Walk(kids, <<getWrapper>>))

\* C35: the selection is none or a component of the tree of the page, and
\* after a removeComponent that succeeds neither the removed component nor
\* one of its descendants is the selection.
C35_SelectionAttached ==
    /\ selected = NoComp \/ InTree(selected)
    /\ ret.op = "removeComponent" /\ "success" \in DOMAIN ret =>
           selected \notin Subtree(ret.removed)

RECURSIVE Occurrences(_, _)
Occurrences(seq, c) ==
    IF seq = << >> THEN 0
    ELSE (IF Head(seq) = c THEN 1 ELSE 0) + Occurrences(Tail(seq), c)

\* the components that hold c in their child sequence, each counted as
\* often as it holds it
RECURSIVE Holdings(_, _)
Holdings(c, upTo) ==
    IF upTo = 0 THEN 0
    ELSE Occurrences(kids[upTo], c) + Holdings(c, upTo - 1)

\* whether c is its own descendant
OnCycle(c) == c \in Reach(Range(kids[c]))

\* C28: after any sequence of add, move, remove, symbol place and symbol
\* delete, no component is its own descendant, a component with a parent
\* stands once, in the child sequence of that parent and in no other, and
\* a component without parent stands in none.  (Ids are the positions in
\* comps, so no two components share one.)
C28_TreeWellFormed ==
    \A c \in DOMAIN comps :
        /\ ~OnCycle(c)
        /\ IF parent[c] = NoComp THEN Holdings(c, Len(kids)) = 0
           ELSE /\ Holdings(c, Len(kids)) = 1
                /\ c \in Range(kids[parent[c]])

\* C29: after any sequence of page operations and symbol searches the
\* selected page is a page of the collection, also after the selected page
\* or the last page left was removed; and a selectPage that fails leaves
\* the selected page as it was.
C29_SelectedPagePresent ==
    /\ [](selectedPage \in Range(pages))
    /\ [][ret'.op = "selectPage" /\ "error" \in DOMAIN ret'
             => selectedPage' = selectedPage]_vars

\* C30: for the selection and position of a placeSymbol call that found
\* its symbol, addComponent resolves a parent too, and placeSymbol adds to
\* that parent at that index: with the root selected and 'before' or
\* 'after' both would have to fail.
C30_PlacedWhereAdded ==
    [][ret'.op = "placeSymbol" /\ "success" \in DOMAIN ret' =>
          /\ AddParent(ret'.position) # NoComp
          /\ PlaceParent(ret'.position) = AddParent(ret'.position)
          /\ PlaceAt(ret'.position) = AddAt(ret'.position)]_vars

\* C31: a setStyle that succeeds leaves the active rule with the batch's
\* value for every key of the batch and its previous value for every other
\* key, and leaves the rules of every other selector and breakpoint as
\* they were.
C31_SetStyleMergesActiveRule ==
    [][ret'.op = "setStyle" /\ Succeeded(ret') =>
          /\ DOMAIN rules' = DOMAIN rules \cup {activeRule}
          /\ DOMAIN rules'[activeRule]
                 = DOMAIN RuleStyle(activeRule) \cup BatchKeys(ret'.props)
          /\ \A pr \in BatchKeys(ret'.props) :
                 rules'[activeRule][pr] = BatchValue(ret'.props, pr)
          /\ \A pr \in DOMAIN RuleStyle(activeRule) \ BatchKeys(ret'.props) :
                 rules'[activeRule][pr] = rules[activeRule][pr]
          /\ \A key \in DOMAIN rules \ {activeRule} :
                 rules'[key] = rules[key]]_vars

\* a batch of one pair was merged into the tablet rule of .hero, which
\* keeps an earlier pair, while the desktop rules of .hero and .card hold
\* their declarations
C31_Witness ==
    /\ ret.op = "setStyle" /\ Succeeded(ret)
    /\ Len(ret.props) = 1
    /\ activeRule = << <<".", "hero">>, "tablet" >>
    /\ Cardinality(DOMAIN rules[activeRule]) = 2
    /\ rules[<< <<".", "hero">>, "desktop" >>] = [color |-> "red"]
    /\ rules[<< <<".", "card">>, "desktop" >>] = [margin |-> "0"]

\* the orphaned masters that carry the label
OrphansLabelled(label) ==
    SelectSeq(symbols, LAMBDA c : OrphanHasLabel(comps[c], label))

\* whether the tree of page pg holds a component labelled label
PageHolds(pg, label) ==
    \E c \in Range(Walk(kids, <<wrapper[pg]>>)) : TreeLabel(comps[c]) = label

\* C32: findSymbolByLabel returns the first orphaned master that carries
\* the label, whatever the pages hold, and selects no page on the way; only
\* when no orphan matches does it select the pages in their order, and it
\* goes no further than the first page that holds a match, whose match it
\* returns.
C32_OrphansFirst ==
    [][ret'.op = "findSymbolByLabel" =>
          IF OrphansLabelled(ret'.label) # << >>
          THEN /\ ret'.found = Head(OrphansLabelled(ret'.label))
               /\ ret'.visited = << >>
               /\ selectedPage' = selectedPage
          ELSE /\ ret'.visited = SubSeq(pages, 1, Len(ret'.visited))
               /\ \A i \in 1..(Len(ret'.visited) - 1) :
                      ~PageHolds(ret'.visited[i], ret'.label)
               /\ ret'.found # NoComp =>
                      /\ ret'.visited # << >>
                      /\ ret'.found \in
                             Range(Walk(kids,
                                 <<wrapper[ret'.visited[Len(ret'.visited)]]>>))
                      /\ TreeLabel(comps[ret'.found]) = ret'.label
               /\ ret'.found = NoComp /\ ~ret'.threw =>
                      ret'.visited = pages]_vars

\* Header was asked for while page about holds a placed Header: the
\* orphaned master came back and no page was selected
C32_Witness ==
    /\ ret.op = "findSymbolByLabel"
    /\ ret.label = "Header"
    /\ ret.found = 4
    /\ ret.visited = << >>
    /\ PageHolds("about", "Header")
    /\ selectedPage = "about"

\* C39: a deleteSelector that succeeds takes the class off the selected
\* component and off no other, and empties the declarations of the rules
\* whose selector is the dot and the class name, at every breakpoint; the
\* other rules keep their declarations and no rule is added or dropped.
C39_DeleteSelectorEffect ==
    [][ret'.op = "deleteSelector" /\ "success" \in DOMAIN ret' =>
          LET name == ret'.class_name[1]
          IN  /\ name \notin Range(OrElse(comps'[selected], "classes", << >>))
              /\ \A other \in Range(getClasses(selected)) \ {name} :
                     other \in Range(OrElse(comps'[selected], "classes", << >>))
              /\ \A x \in DOMAIN comps : x # selected => comps'[x] = comps[x]
              /\ DOMAIN rules' = DOMAIN rules
              /\ \A key \in DOMAIN rules :
                     rules'[key] = IF key[1] = <<".", name>>
                                   THEN EmptyStyle ELSE rules[key]]_vars

\* card was deleted on the div while the root carries it too: the root
\* keeps the class, the rule of .card is empty and that of .hero is not
C39_Witness ==
    /\ ret.op = "deleteSelector"
    /\ "success" \in DOMAIN ret
    /\ ret.class_name = <<"card">>
    /\ selected = 2
    /\ "card" \in Range(getClasses(1))
    /\ "card" \notin Range(getClasses(2))
    /\ rules[<< <<".", "card">>, "desktop" >>] = EmptyStyle
    /\ rules[<< <<".", "hero">>, "desktop" >>] = [color |-> "red"]

\* the labels findAllSymbols lists
ListedLabels == {findAllSymbols[i].label : i \in DOMAIN findAllSymbols}

\* whether component c is a symbol: an orphaned master, or a component
\* that carries a symbolId
IsSymbol(c) == c \in Range(symbols) \/ "symbolId" \in DOMAIN comps[c]

\* C36: a findSymbolByLabel that does not throw returns a component exactly
\* when the label is one findAllSymbols lists, and what it returns is a
\* symbol.
C36_FoundIffListed ==
    [][ret'.op = "findSymbolByLabel" /\ ~ret'.threw =>
          /\ ret'.found # NoComp <=> ret'.label \in ListedLabels
          /\ ret'.found # NoComp => IsSymbol(ret'.found)]_vars

-----------------------------------------------------------------------------
(* The bridge script *)

\* C26: once the editor is ready and the bridge has run its callback, every
\* menu event the host sends triggers its editor action: store for
\* menu-save, undo for menu-undo, redo for menu-redo, the dashboard for
\* menu-close-project; none is dropped.
C26_MenuEventsHandled ==
    \A i \in DOMAIN menu :
        menu[i].wired => menu[i].action = MenuAction(menu[i].event)

\* C33: the callback of waitForEditor runs at most once on a page, and only
\* in a run of the interval that found the editor, which is the run that
\* clears the interval; a run that finds no editor, or whose lookup throws,
\* leaves the interval set and the callback uncalled; and once the editor
\* is there while the interval is set, the callback is eventually called
\* once and the interval is cleared, whether or not the callback threw.
C33_CallbackOnce ==
    /\ [](bridge.called <= 1)
    /\ [](bridge.called = 1 => ~bridge.polling /\ bridge.editorUp)
    /\ [][bridge'.called > bridge.called =>
              /\ bridge.polling
              /\ bridge.editorUp
              /\ bridge'.lookup = "editor"
              /\ ~bridge'.polling]_vars
    /\ [][bridge.polling /\ ~bridge.editorUp =>
              bridge'.polling /\ bridge'.called = 0]_vars
    /\ (bridge.polling /\ bridge.editorUp)
           ~> (bridge.called = 1 /\ ~bridge.polling)

\* the editor came after the interval had run without it; the callback ran
\* once and threw, and the interval is cleared
C33_Witness ==
    /\ bridge.called = 1
    /\ bridge.threw
    /\ ~bridge.polling
    /\ bridge.ticks = MaxTicks
    /\ bridge.lookup = "editor"

\* C34: when the editor never becomes available, the wait for it ends: the
\* interval is eventually cleared.
C34_WaitTimesOut ==
    ([](~bridge.editorUp)) => <>(~bridge.polling)

\* C37: the project is reported, changes are tracked and menu listeners
\* act only after the callback of waitForEditor has run;
\* set_current_project is invoked at most once on a page, with the website
\* id for a name when the fetch failed; and on a page without a website id
\* clear_current_project was invoked, no interval is set, the callback
\* never runs and nothing listens.
C37_NothingBeforeReady ==
    /\ (\/ bridge.fetch # ""
        \/ bridge.sets > 0
        \/ bridge.tracking
        \/ bridge.unsaved
        \/ bridge.listening # {}) => bridge.called = 1
    /\ \A i \in DOMAIN menu : menu[i].action # "none" => menu[i].wired
    /\ bridge.sets <= 1
    /\ bridge.fetch = "failed" => bridge.project = "id"
    /\ bridge.page = "dashboard" =>
           /\ bridge.cleared
           /\ ~bridge.polling
           /\ bridge.called = 0
           /\ bridge.listening = {}

-----------------------------------------------------------------------------
(* The Electron shell *)

\* C38: the shell never has more than one main window open.
C38_SingleMainWindow == Cardinality(shell.open) <= 1

=============================================================================
